---------------------------- MODULE Spec2Model ----------------------------
(***************************************************************************)
(* Authentication and abuse prevention of the VIONEX backend:              *)
(*   auth.rs   RateLimiter, LoginAttemptTracker, SessionManager, tokens    *)
(*   users.rs  the register and login handlers                             *)
(*   refresh and logout, whose service is not part of the sources, follow  *)
(*   their description over the token codec and the SessionManager         *)
(* The shared store (Redis) is one variable; every store command is an     *)
(* operator from a store value to a store value.  A function that awaits   *)
(* the store or the database is a step operator: given the call's locals   *)
(* and its position, it performs the one await the call is suspended at    *)
(* and what follows it up to the next await.  An action is one such step   *)
(* of one caller, so the clock and the other callers move between the      *)
(* awaits of a call.                                                       *)
(* Time is the wall clock in whole seconds (Utc::now().timestamp()).       *)
(***************************************************************************)
EXTENDS Integers, Sequences, FiniteSets, TLC

VARIABLES
    now,         \* the clock, seconds
    redis,       \* the shared store: sorted sets, string keys, key expiries
    users,       \* the users table (rows the login query can return)
    config,      \* the process configuration, fixed at start
    rl_log,      \* history: the check_rate_limit calls made so far
    login_last,  \* history: the last login execution (inputs, calls, response)
    fails,       \* history: times of the last record_attempt(_, false) since the last reset
    streak,      \* history: number of trailing consecutive wrong-password logins
    sess_last,   \* history: the last SessionManager call and its result
    sess_model,  \* history: per user, the last create_session that returned Ok and
                 \* was not followed by an invalidate_session that returned Ok
    auth_last,   \* history: the last refresh or logout and its result
    auth_hist,   \* history: the refresh tokens accepted by refresh, and those of
                 \* them whose session a logout has invalidated since
    trk_last,    \* history: the last direct LoginAttemptTracker call and its result
    trk_clean,   \* history: per account, the last record_attempt(_, false) that
                 \* stored its failure also refreshed the key's expiry
    tok_last,    \* history: the last token issued or verified, and the result
    callers,     \* the concurrent callers of check_rate_limit: position and locals
    workers,     \* the concurrent callers of the SessionManager: position and locals
    sess_log,    \* history: the SessionManager calls the workers have completed
    trackers,    \* the concurrent callers of the LoginAttemptTracker: position and locals
    handlers,    \* the HTTP workers running register and login: position and locals
    answers,     \* history: the status and message given to logins that named no
                 \* account, and to logins that sent a wrong password
    parties      \* two parties calling the store-backed operations on their own keys

vars == <<now, redis, users, config, rl_log, login_last, fails, streak,
          sess_last, sess_model, auth_last, auth_hist, trk_last, trk_clean,
          tok_last, callers, workers, sess_log, trackers, handlers, answers, parties>>

\* the variables only the concurrent SessionManager callers write
worker_vars == <<workers, sess_log>>

\* the variables the handlers of sections 1-3 never write
later_vars == <<auth_last, trk_last, trk_clean, tok_last, callers>>

-----------------------------------------------------------------------------
(* Bounds of the model *)

\* requests_per_minute the RateLimiter is constructed with in SpecRL
ModelRequestsPerMinute == 2
\* check_rate_limit calls per behaviour in SpecRL
MaxCalls == 4
\* max_login_attempts the login handler is configured with in SpecLogin
ModelMaxAttempts == 2
\* max_login_attempts in SpecFrame
FrameMaxAttempts == 1
\* calls each party makes per behaviour in SpecFrame
FrameCallsEach == 2
\* seconds the clock moves while a call or a request is in flight
MaxLatency == 1
\* the last second at which the owner signs in in SpecAccess
LastLogin == 0
\* SessionManager calls per behaviour in SpecWorkers
MaxSessCalls == 3

-----------------------------------------------------------------------------
(* Program constants *)

RateWindow == 60
RateKeyTtl == 60
SessionTtl == 86400
DefaultMaxLoginAttempts == 5
DefaultLoginAttemptWindow == 900
DefaultRequestsPerMinute == 60
AccessTokenTtl == 86400
RefreshTokenTtl == 604800
\* jsonwebtoken Validation::default().leeway, seconds
Leeway == 60

-----------------------------------------------------------------------------
(* Keys, accounts, results *)

RLKeys == {"ip:10.0.0.1"}
AccountIds == {"u1"}

\* a second rate-limit key and a second account, used where two keys matter
OtherRLKey == "ip:10.0.0.2"
OtherAccount == "u2"

LoginKey_shared(user_id) == "login_attempts:" \o "u1"

LoginKey(user_id) == "login_attempts:" \o user_id
SessKey(user_id) == "session:" \o user_id

ZKeys == RLKeys \cup {OtherRLKey} \cup {LoginKey(id) : id \in AccountIds \cup {OtherAccount}}
SKeys == {SessKey(id) : id \in AccountIds \cup {OtherAccount}}

\* Result<T, E>: Ok(v) or Err
Ok(v) == [ok |-> TRUE, val |-> v]
Err == [ok |-> FALSE, val |-> FALSE]
unwrap_or(r, d) == IF r.ok THEN r.val ELSE d

\* Config::default()
ConfigDefault ==
    [max_login_attempts |-> DefaultMaxLoginAttempts,
     login_attempt_window |-> DefaultLoginAttemptWindow,
     requests_per_minute |-> DefaultRequestsPerMinute,
     jwt_secret |-> "your-secret-key"]

-----------------------------------------------------------------------------
(* The store.  A sorted set's members are the scores themselves: every ZADD *)
(* of the source passes `now` as score and as member.  A key with no       *)
(* member does not exist and has no expiry.  ttl[k] is {} (no expiry) or   *)
(* {t}: the key is gone from time t on.                                    *)

\* the store at time t: keys whose expiry has been reached are gone
Purge(R, t) ==
    LET gone(k) == \E e \in R.ttl[k] : e <= t
    IN [z |-> [k \in ZKeys |-> IF gone(k) THEN {} ELSE R.z[k]],
        s |-> [k \in SKeys |-> IF gone(k) THEN {} ELSE R.s[k]],
        ttl |-> [k \in ZKeys \cup SKeys |-> IF gone(k) THEN {} ELSE R.ttl[k]]]

\* ZADD key score member, with member = score
ZADD(R, key, score) == [R EXCEPT !.z[key] = @ \cup {score}]

\* ZREMRANGEBYSCORE key -inf max: both ends inclusive; an emptied key is deleted
ZREMRANGEBYSCORE(R, key, max) ==
    LET left == {m \in R.z[key] : m > max}
    IN [R EXCEPT !.z[key] = left,
                 !.ttl[key] = IF left = {} THEN {} ELSE @]

\* ZCARD key
ZCARD(R, key) == Cardinality(R.z[key])

\* EXPIRE key seconds at time t: nothing on a missing key, deletes on seconds <= 0
EXPIRE(R, key, seconds, t) ==
    IF R.z[key] = {} THEN R
    ELSE IF seconds <= 0
         THEN [R EXCEPT !.z[key] = {}, !.ttl[key] = {}]
         ELSE [R EXCEPT !.ttl[key] = {t + seconds}]

\* DEL key
DELZ(R, key) == [R EXCEPT !.z[key] = {}, !.ttl[key] = {}]
DELS(R, key) == [R EXCEPT !.s[key] = {}, !.ttl[key] = {}]

\* SETEX key seconds value at time t
SETEX(R, key, seconds, value, t) ==
    [R EXCEPT !.s[key] = {value}, !.ttl[key] = {t + seconds}]

\* GET key: {} is nil
GET(R, key) == R.s[key]

-----------------------------------------------------------------------------
(* RateLimiter::check_rate_limit.  The function awaits five times: the     *)
(* connection, ZREMRANGEBYSCORE, ZCARD, ZADD and EXPIRE.  A call in flight  *)
(* is the await it is suspended at (pc), its key, and the `now` it read    *)
(* after the connection.  Between two awaits of a call the clock and the   *)
(* other callers may move; a command reaches the store at the time of its  *)
(* own step.                                                               *)

RLCall(pc, key, t) == [pc |-> pc, key |-> key, t |-> t]

check_rate_limit_step_counts_denied(R, c, clk, limit, ok) ==
    LET window_start == c.t - RateWindow
        current_count == ZCARD(R, c.key)
        goes(pc, S) == [store |-> S, call |-> [c EXCEPT !.pc = pc], done |-> FALSE, ret |-> Err]
        returns(ret, S) == [store |-> S, call |-> c, done |-> TRUE, ret |-> ret]
    IN IF ~ok THEN returns(Err, R)
       ELSE CASE c.pc = "connect" -> [goes("zremrangebyscore", R) EXCEPT !.call.t = clk]
              [] c.pc = "zremrangebyscore" ->
                    goes("zcard", ZREMRANGEBYSCORE(R, c.key, window_start))
              [] c.pc = "zcard" ->
                    IF current_count >= limit
                    THEN returns(Ok(FALSE), EXPIRE(ZADD(R, c.key, c.t), c.key, RateKeyTtl, clk))
                    ELSE goes("zadd", R)
              [] c.pc = "zadd" -> goes("expire", ZADD(R, c.key, c.t))
              [] c.pc = "expire" -> returns(Ok(TRUE), EXPIRE(R, c.key, RateKeyTtl, clk))

check_rate_limit_step_never_forgets(R, c, clk, limit, ok) ==
    LET current_count == ZCARD(R, c.key)
        goes(pc, S) == [store |-> S, call |-> [c EXCEPT !.pc = pc], done |-> FALSE, ret |-> Err]
        returns(ret, S) == [store |-> S, call |-> c, done |-> TRUE, ret |-> ret]
    IN IF ~ok THEN returns(Err, R)
       ELSE CASE c.pc = "connect" -> [goes("zremrangebyscore", R) EXCEPT !.call.t = clk]
              [] c.pc = "zremrangebyscore" -> goes("zcard", R)
              [] c.pc = "zcard" ->
                    IF current_count >= limit THEN returns(Ok(FALSE), R) ELSE goes("zadd", R)
              [] c.pc = "zadd" -> goes("expire", ZADD(R, c.key, c.t))
              [] c.pc = "expire" -> returns(Ok(TRUE), R)

\* The await c.pc of the call completes when the clock reads clk; ok says
\* whether it completed without an error (`?` returns at the first error, the
\* earlier commands having run).  The result is the store, the call at its
\* next await, and, when the function returns (done), what it returns.
check_rate_limit_step(R, c, clk, limit, ok) ==
    LET window_start == c.t - RateWindow
        current_count == ZCARD(R, c.key)
        goes(pc, S) == [store |-> S, call |-> [c EXCEPT !.pc = pc], done |-> FALSE, ret |-> Err]
        returns(ret, S) == [store |-> S, call |-> c, done |-> TRUE, ret |-> ret]
    IN IF ~ok THEN returns(Err, R)
       ELSE CASE c.pc = "connect" -> [goes("zremrangebyscore", R) EXCEPT !.call.t = clk]
              [] c.pc = "zremrangebyscore" ->
                    goes("zcard", ZREMRANGEBYSCORE(R, c.key, window_start))
              [] c.pc = "zcard" ->
                    IF current_count >= limit THEN returns(Ok(FALSE), R) ELSE goes("zadd", R)
              [] c.pc = "zadd" -> goes("expire", ZADD(R, c.key, c.t))
              [] c.pc = "expire" -> returns(Ok(TRUE), EXPIRE(R, c.key, RateKeyTtl, clk))

-----------------------------------------------------------------------------
(* Callers of check_rate_limit.  One step of a caller is one await of its   *)
(* call; the call's record enters the history when the function returns.   *)

Callers == {"w1", "w2"}

Idle == RLCall("idle", CHOOSE k \in RLKeys : TRUE, 0)

\* calls begun so far, finished or not
Begun == Len(rl_log) + Cardinality({c \in Callers : callers[c].pc # "idle"})

RaceFrame ==
    UNCHANGED <<now, users, config, worker_vars, trackers, handlers, answers, parties, login_last, fails, streak, sess_last, sess_model,
                auth_last, auth_hist, trk_last, trk_clean, tok_last>>

\* caller c, in the call `call`, completes the await it is suspended at; a
\* call that returns is logged with its key, its `now` (the clock, when it
\* returned before reading it) and whether its ZADD had run
Await(c, call) ==
    /\ \E ok \in BOOLEAN :
       \E r \in {check_rate_limit_step(redis, call, now, config.requests_per_minute, ok)} :
         /\ redis' = r.store
         /\ IF r.done
            THEN /\ rl_log' = Append(rl_log,
                                     [key |-> call.key,
                                      t |-> IF call.pc = "connect" THEN now ELSE call.t,
                                      ret |-> r.ret,
                                      added |-> call.pc = "expire"])
                 /\ callers' = [callers EXCEPT ![c] = Idle]
            ELSE /\ callers' = [callers EXCEPT ![c] = r.call]
                 /\ UNCHANGED rl_log
    /\ RaceFrame

\* a call begins: get_async_connection, then now = Utc::now().timestamp()
Connect(c) ==
    /\ callers[c].pc = "idle"
    /\ Begun < MaxCalls
    /\ \E key \in RLKeys : Await(c, RLCall("connect", key, 0))

\* one of the four store commands of a call in flight
Command(c) ==
    /\ callers[c].pc # "idle"
    /\ Await(c, callers[c])

\* two workers on the shared store
CallerStep == \E c \in Callers : Connect(c) \/ Command(c)

\* one worker: its calls follow one another
SoloStep == \E c \in {"w1"} : Connect(c) \/ Command(c)

-----------------------------------------------------------------------------
(* Credential hasher and token codec *)

\* a bcrypt hash string: parsable, made of a password; or not parsable
hash_password(password) == [parsable |-> TRUE, of |-> password]
CorruptHash == [parsable |-> FALSE, of |-> ""]

\* bcrypt::verify: Err on a hash it cannot parse, else Ok(match)
verify_password(password, hash) ==
    IF ~hash.parsable THEN Err ELSE Ok(hash.of = password)

\* struct Claims
Claims(sub, username, role, exp, iat) ==
    [sub |-> sub, username |-> username, role |-> role, exp |-> exp, iat |-> iat]

\* jsonwebtoken::encode with Header::default(): the payload and an HS256
\* signature, which is a function of the key and of the signed payload
encode(claims, secret) ==
    [payload |-> claims, sig |-> [key |-> secret, over |-> claims]]

TokenErr(kind) == [ok |-> FALSE, val |-> kind]

decode_leeway_subtracted(token, secret, t) ==
    IF token.sig # [key |-> secret, over |-> token.payload]
    THEN TokenErr("InvalidSignature")
    ELSE IF token.payload.exp - Leeway < t
    THEN TokenErr("ExpiredSignature")
    ELSE Ok(token.payload)

\* jsonwebtoken::decode with Validation::default() at time t: the signature,
\* then exp with the default leeway
decode(token, secret, t) ==
    IF token.sig # [key |-> secret, over |-> token.payload]
    THEN TokenErr("InvalidSignature")
    ELSE IF token.payload.exp < t - Leeway
    THEN TokenErr("ExpiredSignature")
    ELSE Ok(token.payload)

\* generate_token / refresh_token read the clock twice: t1 for the expiry,
\* then t2 for issued-at
generate_token(user, cfg, t1, t2) ==
    encode(Claims(user.id, user.username, user.role, t1 + AccessTokenTtl, t2),
           cfg.jwt_secret)

refresh_token(user, cfg, t1, t2) ==
    encode(Claims(user.id, user.username, user.role, t1 + RefreshTokenTtl, t2),
           cfg.jwt_secret)

verify_token_access_only(token, cfg, t) ==
    IF token.payload.exp - token.payload.iat > AccessTokenTtl
    THEN TokenErr("InvalidToken")
    ELSE decode(token, cfg.jwt_secret, t)

verify_token(token, cfg, t) == decode(token, cfg.jwt_secret, t)

-----------------------------------------------------------------------------
(* LoginAttemptTracker.  record_attempt awaits the connection and then DEL  *)
(* (success) or ZADD, ZREMRANGEBYSCORE and EXPIRE (failure); is_blocked     *)
(* awaits the connection and ZCARD.  A call in flight is the await it is   *)
(* suspended at (pc), its arguments, and the `now` record_attempt read     *)
(* after the connection.                                                   *)

TrkCall(pc, op, user_id, success, t) ==
    [pc |-> pc, op |-> op, user |-> user_id, success |-> success, t |-> t]

record_attempt_step_decrements(R, c, clk, window_minutes, ok) ==
    LET key == LoginKey(c.user)
        newest == {m \in R.z[key] : \A n \in R.z[key] : n <= m}
        goes(pc, S) == [store |-> S, call |-> [c EXCEPT !.pc = pc], done |-> FALSE, ret |-> Err]
        returns(ret, S) == [store |-> S, call |-> c, done |-> TRUE, ret |-> ret]
    IN IF ~ok THEN returns(Err, R)
       ELSE CASE c.pc = "connect" ->
                    [goes(IF c.success THEN "del" ELSE "zadd", R) EXCEPT !.call.t = clk]
              [] c.pc = "del" ->
                    returns(Ok(TRUE), [R EXCEPT !.z[key] = @ \ newest,
                                                !.ttl[key] = IF R.z[key] \ newest = {} THEN {} ELSE @])
              [] c.pc = "zadd" -> goes("zremrangebyscore", ZADD(R, key, c.t))
              [] c.pc = "zremrangebyscore" ->
                    goes("expire", ZREMRANGEBYSCORE(R, key, c.t - window_minutes * 60))
              [] c.pc = "expire" -> returns(Ok(TRUE), EXPIRE(R, key, window_minutes * 60, clk))

record_attempt_step_ignores_success(R, c, clk, window_minutes, ok) ==
    LET key == LoginKey(c.user)
        window_start == c.t - window_minutes * 60
        goes(pc, S) == [store |-> S, call |-> [c EXCEPT !.pc = pc], done |-> FALSE, ret |-> Err]
        returns(ret, S) == [store |-> S, call |-> c, done |-> TRUE, ret |-> ret]
    IN IF ~ok THEN returns(Err, R)
       ELSE CASE c.pc = "connect" -> [goes("zadd", R) EXCEPT !.call.t = clk]
              [] c.pc = "del" -> returns(Ok(TRUE), DELZ(R, key))
              [] c.pc = "zadd" -> goes("zremrangebyscore", ZADD(R, key, c.t))
              [] c.pc = "zremrangebyscore" ->
                    goes("expire", ZREMRANGEBYSCORE(R, key, window_start))
              [] c.pc = "expire" -> returns(Ok(TRUE), EXPIRE(R, key, window_minutes * 60, clk))

record_attempt_step_at_least_a_minute(R, c, clk, window_minutes, ok) ==
    LET key == LoginKey(c.user)
        minutes == IF window_minutes < 1 THEN 1 ELSE window_minutes
        goes(pc, S) == [store |-> S, call |-> [c EXCEPT !.pc = pc], done |-> FALSE, ret |-> Err]
        returns(ret, S) == [store |-> S, call |-> c, done |-> TRUE, ret |-> ret]
    IN IF ~ok THEN returns(Err, R)
       ELSE CASE c.pc = "connect" ->
                    [goes(IF c.success THEN "del" ELSE "zadd", R) EXCEPT !.call.t = clk]
              [] c.pc = "del" -> returns(Ok(TRUE), DELZ(R, key))
              [] c.pc = "zadd" -> goes("zremrangebyscore", ZADD(R, key, c.t))
              [] c.pc = "zremrangebyscore" ->
                    goes("expire", ZREMRANGEBYSCORE(R, key, c.t - minutes * 60))
              [] c.pc = "expire" -> returns(Ok(TRUE), EXPIRE(R, key, minutes * 60, clk))

\* The await c.pc of a record_attempt call completes when the clock reads
\* clk; ok says whether it completed without an error.  The result is the
\* store, the call at its next await, and, when the function returns (done),
\* what it returns.
record_attempt_step(R, c, clk, window_minutes, ok) ==
    LET key == LoginKey(c.user)
        window_start == c.t - window_minutes * 60
        goes(pc, S) == [store |-> S, call |-> [c EXCEPT !.pc = pc], done |-> FALSE, ret |-> Err]
        returns(ret, S) == [store |-> S, call |-> c, done |-> TRUE, ret |-> ret]
    IN IF ~ok THEN returns(Err, R)
       ELSE CASE c.pc = "connect" ->
                    [goes(IF c.success THEN "del" ELSE "zadd", R) EXCEPT !.call.t = clk]
              [] c.pc = "del" -> returns(Ok(TRUE), DELZ(R, key))
              [] c.pc = "zadd" -> goes("zremrangebyscore", ZADD(R, key, c.t))
              [] c.pc = "zremrangebyscore" ->
                    goes("expire", ZREMRANGEBYSCORE(R, key, window_start))
              [] c.pc = "expire" -> returns(Ok(TRUE), EXPIRE(R, key, window_minutes * 60, clk))

\* The same for an is_blocked call, which writes nothing.
is_blocked_step(R, c, max_attempts, ok) ==
    LET key == LoginKey(c.user)
        goes(pc) == [store |-> R, call |-> [c EXCEPT !.pc = pc], done |-> FALSE, ret |-> Err]
        returns(ret) == [store |-> R, call |-> c, done |-> TRUE, ret |-> ret]
    IN IF ~ok THEN returns(Err)
       ELSE CASE c.pc = "connect" -> goes("zcard")
              [] c.pc = "zcard" -> returns(Ok(ZCARD(R, key) >= max_attempts))

\* one await of a call of either method, under the configuration login gives
\* the tracker
tracker_step(R, c, clk, cfg, ok) ==
    IF c.op = "record_attempt"
    THEN record_attempt_step(R, c, clk, cfg.login_attempt_window \div 60, ok)
    ELSE is_blocked_step(R, c, cfg.max_login_attempts, ok)

-----------------------------------------------------------------------------
(* SessionManager.  `fail`: 0 none, 1 the connection, 2 the command.       *)

create_session_keeps_existing(R, user_id, token, t, fail) ==
    IF fail # 0 THEN [store |-> R, ret |-> Err]
    ELSE IF GET(R, SessKey(user_id)) # {} THEN [store |-> R, ret |-> Ok(TRUE)]
    ELSE [store |-> SETEX(R, SessKey(user_id), SessionTtl, token, t), ret |-> Ok(TRUE)]

create_session_appends(R, user_id, token, t, fail) ==
    IF fail # 0 THEN [store |-> R, ret |-> Err]
    ELSE [store |-> [R EXCEPT !.s[SessKey(user_id)] = @ \cup {token},
                              !.ttl[SessKey(user_id)] = {t + SessionTtl}],
          ret |-> Ok(TRUE)]

create_session(R, user_id, token, t, fail) ==
    IF fail # 0 THEN [store |-> R, ret |-> Err]
    ELSE [store |-> SETEX(R, SessKey(user_id), SessionTtl, token, t), ret |-> Ok(TRUE)]

verify_session_outage_is_absent(R, user_id, token, fail) ==
    IF fail # 0 THEN Ok(FALSE)
    ELSE Ok(GET(R, SessKey(user_id)) = {token})

verify_session(R, user_id, token, fail) ==
    IF fail # 0 THEN Err
    ELSE Ok(GET(R, SessKey(user_id)) = {token})

invalidate_session_keeps_key(R, user_id, fail) ==
    IF fail # 0 THEN [store |-> R, ret |-> Err]
    ELSE [store |-> R, ret |-> Ok(TRUE)]

invalidate_session(R, user_id, fail) ==
    IF fail # 0 THEN [store |-> R, ret |-> Err]
    ELSE [store |-> DELS(R, SessKey(user_id)), ret |-> Ok(TRUE)]

\* A SessionManager call in flight: each method awaits the connection and
\* then its one command.
SessionCall(pc, op, user_id) == [pc |-> pc, op |-> op, user |-> user_id]

\* The await c.pc of the call completes when the clock reads clk; token is
\* the token argument of create_session and verify_session.
session_step(R, c, token, clk, ok) ==
    LET fail == IF ok THEN 0 ELSE 2
        made == create_session(R, c.user, token, clk, fail)
        gone == invalidate_session(R, c.user, fail)
        returns(ret, S) == [store |-> S, call |-> c, done |-> TRUE, ret |-> ret]
    IN CASE c.pc = "connect" ->
               IF ok THEN [store |-> R, call |-> [c EXCEPT !.pc = "command"],
                           done |-> FALSE, ret |-> Err]
               ELSE returns(Err, R)
         [] c.pc = "command" /\ c.op = "create_session" -> returns(made.ret, made.store)
         [] c.pc = "command" /\ c.op = "verify_session" ->
               returns(verify_session(R, c.user, token, fail), R)
         [] c.pc = "command" /\ c.op = "invalidate_session" -> returns(gone.ret, gone.store)

-----------------------------------------------------------------------------
(* The handlers: register and login (users.rs), the auth middleware        *)
(* authenticate_user (auth.rs) and manage_users (admin.rs).  A handler      *)
(* suspends at every await: the statements on the users table and, inside  *)
(* the tracker and the SessionManager, the connection and every store      *)
(* command; generate_token and refresh_token read the clock twice each.  A *)
(* handler in flight is the phase it is in, its request, the row it        *)
(* fetched, the tracker or session call it is inside, and the values it    *)
(* has computed so far.  The error arms `Failed to generate token` are     *)
(* left out: encoding the claims with an HMAC key does not fail.           *)

\* LoginRequest::validate: username 3..50 characters, password at least 1
Validate(req) ==
    /\ Len(req.username) >= 3
    /\ Len(req.username) <= 50
    /\ Len(req.password) >= 1

\* the strings of the model that are well-formed e-mail addresses
Emails == {"alice@example.com"}

\* RegisterRequest::validate: username 3..50 characters, a well-formed e-mail
\* address, password at least 8
ValidateRegister(req) ==
    /\ Len(req.username) >= 3
    /\ Len(req.username) <= 50
    /\ req.email \in Emails
    /\ Len(req.password) >= 8

\* SELECT ... WHERE (username = $1 OR email = $1) AND is_active = TRUE
FindUser(db, ident) ==
    {u \in db : (u.username = ident \/ u.email = ident) /\ u.is_active}

Response(status, message, tokens) ==
    [status |-> status, message |-> message, tokens |-> tokens]

\* a row of the users table with the columns the handlers read or write (the
\* last_login column, which login writes and never reads, is left out); role
\* and is_active take the defaults of the table
Account(hash) ==
    [id |-> "u1", username |-> "alice", email |-> "alice@example.com",
     password_hash |-> hash, role |-> "viewer", is_active |-> TRUE]

AccountPassword == "correct horse"

NoUser == [Account(CorruptHash) EXCEPT !.id = "", !.username = "", !.email = "",
                                       !.is_active = FALSE]

NoCall == TrkCall("idle", "is_blocked", "", FALSE, 0)

NoToken == encode(Claims("", "", "", 0, 0), "")

\* met is history: what the handler met when its request arrived
Handler(op, phase, req, user, call, blocked_check, t1, access, refresh, met) ==
    [op |-> op, phase |-> phase, req |-> req, user |-> user, call |-> call,
     blocked_check |-> blocked_check, t1 |-> t1, access |-> access, refresh |-> refresh,
     met |-> met]

\* a handler goes on to its next await, or returns a response
Goes(R, db, h) ==
    [store |-> R, db |-> db, handler |-> h, done |-> FALSE, resp |-> Response(0, "", {})]
Returns(R, db, h, resp) ==
    [store |-> R, db |-> db, handler |-> h, done |-> TRUE, resp |-> resp]

\* register, users.rs 86-109: validation, then SELECT id WHERE username = $1.
\* Only Ok(Some(_)) is a conflict: a query that errors lets the handler go on.
register_username(R, db, h, ok) ==
    IF ~ValidateRegister(h.req)
    THEN Returns(R, db, h, Response(400, "Validation failed", {}))
    ELSE IF ok /\ \E u \in db : u.username = h.req.username
    THEN Returns(R, db, h, Response(409, "Username already exists", {}))
    ELSE Goes(R, db, [h EXCEPT !.phase = "email"])

\* register, users.rs 111-137: SELECT id WHERE email = $1, then hash_password;
\* hashed says whether the hasher returned a hash
register_email(R, db, h, ok, hashed) ==
    IF ok /\ \E u \in db : u.email = h.req.email
    THEN Returns(R, db, h, Response(409, "Email already exists", {}))
    ELSE IF ~hashed
    THEN Returns(R, db, h, Response(500, "Failed to hash password", {}))
    ELSE Goes(R, db, [h EXCEPT !.phase = "insert",
                               !.user = [Account(hash_password(h.req.password))
                                           EXCEPT !.username = h.req.username,
                                                  !.email = h.req.email]])

\* register, users.rs 139-192: INSERT ... RETURNING.  The table's UNIQUE
\* constraints on username and email make the statement fail when another
\* registration has inserted the name or the address in the meantime.
register_insert(R, db, h, ok) ==
    IF ~ok \/ \E u \in db : u.username = h.user.username \/ u.email = h.user.email
    THEN Returns(R, db, h, Response(500, "Failed to create user", {}))
    ELSE Returns(R, db \cup {h.user}, h, Response(201, "User registered successfully", {}))

login_select_reveals_unknown_account(R, db, h, ok) ==
    LET found == FindUser(db, h.req.username)
        user == CHOOSE u \in found : TRUE
        hashed == verify_password(h.req.password, user.password_hash)
    IN IF ~Validate(h.req)
       THEN Returns(R, db, h, Response(400, "Validation failed", {}))
       ELSE IF ~ok
       THEN Returns(R, db, h, Response(500, "Database error", {}))
       ELSE IF found = {}
       THEN Returns(R, db, h, Response(404, "User not found", {}))
       ELSE IF ~unwrap_or(hashed, FALSE)
       THEN Goes(R, db, [h EXCEPT !.phase = "record_failure", !.user = user,
                                  !.call = TrkCall("connect", "record_attempt", user.id, FALSE, 0)])
       ELSE Goes(R, db, [h EXCEPT !.phase = "is_blocked", !.user = user,
                                  !.call = TrkCall("connect", "is_blocked", user.id, FALSE, 0)])

\* login, users.rs 201-252 and 265-272: validation, the users query, then
\* verify_password(..).unwrap_or(false) and the tracker the branch builds.
\* The identifiers of the model name at most one row.
login_select(R, db, h, ok) ==
    LET found == FindUser(db, h.req.username)
        user == CHOOSE u \in found : TRUE
        hashed == verify_password(h.req.password, user.password_hash)
    IN IF ~Validate(h.req)
       THEN Returns(R, db, h, Response(400, "Validation failed", {}))
       ELSE IF ~ok
       THEN Returns(R, db, h, Response(500, "Database error", {}))
       ELSE IF found = {}
       THEN Returns(R, db, h, Response(401, "Invalid credentials", {}))
       ELSE IF ~unwrap_or(hashed, FALSE)
       THEN Goes(R, db, [h EXCEPT !.phase = "record_failure", !.user = user,
                                  !.call = TrkCall("connect", "record_attempt", user.id, FALSE, 0)])
       ELSE Goes(R, db, [h EXCEPT !.phase = "is_blocked", !.user = user,
                                  !.call = TrkCall("connect", "is_blocked", user.id, FALSE, 0)])

\* login, users.rs 254-262: record_attempt(id, false), whose error is only
\* logged, then 401
login_record_failure(R, db, cfg, h, clk, ok) ==
    LET r == record_attempt_step(R, h.call, clk, cfg.login_attempt_window \div 60, ok)
    IN IF r.done
       THEN Returns(r.store, db, h, Response(401, "Invalid credentials", {}))
       ELSE Goes(r.store, db, [h EXCEPT !.call = r.call])

\* login, users.rs 274-280: is_blocked(id).await.unwrap_or(false)
login_is_blocked(R, db, cfg, h, clk, ok) ==
    LET r == is_blocked_step(R, h.call, cfg.max_login_attempts, ok)
    IN IF ~r.done THEN Goes(R, db, [h EXCEPT !.call = r.call])
       ELSE IF unwrap_or(r.ret, FALSE)
       THEN Returns(R, db, [h EXCEPT !.blocked_check = "blocked"],
                    Response(429, "Too many failed login attempts. Please try again later.", {}))
       ELSE Goes(R, db, [h EXCEPT !.phase = "record_success",
                                  !.blocked_check = IF r.ret.ok THEN "clear" ELSE "error",
                                  !.call = TrkCall("connect", "record_attempt", h.user.id, TRUE, 0)])

\* login, users.rs 283-285: record_attempt(id, true), whose error is only logged
login_record_success(R, db, cfg, h, clk, ok) ==
    LET r == record_attempt_step(R, h.call, clk, cfg.login_attempt_window \div 60, ok)
    IN IF r.done
       THEN Goes(r.store, db, [h EXCEPT !.phase = "update", !.call = NoCall])
       ELSE Goes(r.store, db, [h EXCEPT !.call = r.call])

\* login, users.rs 288-298: UPDATE users SET last_login, whose error is only
\* logged
login_update(R, db, h, ok) == Goes(R, db, [h EXCEPT !.phase = "access_exp"])

\* login, users.rs 301-323: generate_token, then refresh_token.  Each reads
\* the clock for exp and again for iat; a phase is one reading.
login_tokens(R, db, cfg, h, clk) ==
    CASE h.phase = "access_exp" -> Goes(R, db, [h EXCEPT !.phase = "access_iat", !.t1 = clk])
      [] h.phase = "access_iat" ->
            Goes(R, db, [h EXCEPT !.phase = "refresh_exp",
                                  !.access = generate_token(h.user, cfg, h.t1, clk)])
      [] h.phase = "refresh_exp" -> Goes(R, db, [h EXCEPT !.phase = "refresh_iat", !.t1 = clk])
      [] h.phase = "refresh_iat" ->
            Goes(R, db, [h EXCEPT !.phase = "create_session",
                                  !.refresh = refresh_token(h.user, cfg, h.t1, clk),
                                  !.call = SessionCall("connect", "create_session",
                                                       h.user.id)])

\* login, users.rs 326-361: create_session(id, refresh_token), whose error is
\* only logged, then 200 with the two tokens
login_create_session(R, db, h, clk, ok) ==
    LET r == session_step(R, h.call, h.refresh, clk, ok)
    IN IF r.done
       THEN Returns(r.store, db, h, Response(200, "Login successful", {h.access, h.refresh}))
       ELSE Goes(R, db, [h EXCEPT !.call = r.call])

authenticate_user_checks_session(R, db, cfg, h, clk, ok) ==
    LET verified == verify_token(h.req.token, cfg, clk)
        found == {u \in db : u.id = h.user.id /\ u.is_active}
    IN CASE h.phase = "verify" ->
               IF ~verified.ok THEN Returns(R, db, h, Err)
               ELSE Goes(R, db, [h EXCEPT !.phase = "auth_query", !.t1 = clk,
                                          !.user = [NoUser EXCEPT !.id = verified.val.sub]])
         [] h.phase = "auth_query" ->
               IF GET(R, SessKey(h.user.id)) = {} THEN Returns(R, db, h, Err)
               ELSE IF ~ok \/ found = {} THEN Returns(R, db, h, Err)
               ELSE Returns(R, db, h, Ok(CHOOSE u \in found : TRUE))

\* authenticate_user, auth.rs 222-246: verify_token, which reads the clock,
\* then SELECT ... WHERE id = $1 AND is_active = TRUE, awaited.  The subject
\* of a token the codec accepts is an id the table issued, so parsing it as
\* a Uuid does not fail.  t1 is the clock the token was verified at.
authenticate_user(R, db, cfg, h, clk, ok) ==
    LET verified == verify_token(h.req.token, cfg, clk)
        found == {u \in db : u.id = h.user.id /\ u.is_active}
    IN CASE h.phase = "verify" ->
               IF ~verified.ok THEN Returns(R, db, h, Err)
               ELSE Goes(R, db, [h EXCEPT !.phase = "auth_query", !.t1 = clk,
                                          !.user = [NoUser EXCEPT !.id = verified.val.sub]])
         [] h.phase = "auth_query" ->
               IF ~ok \/ found = {} THEN Returns(R, db, h, Err)
               ELSE Returns(R, db, h, Ok(CHOOSE u \in found : TRUE))

\* admin::manage_users, admin.rs 495-569, with ban_user, unban_user,
\* verify_user, make_premium_user and log_admin_action (580-677).  The
\* request carries the role of the user who sends it.  Of the columns the
\* statements write, is_active is the one the model tracks.  "second" is the
\* second statement of ban_user and make_premium_user; the error of
\* log_admin_action is only logged.
manage_users(R, db, h, ok) ==
    LET req == h.req
        set_active(active) ==
            {[u EXCEPT !.is_active = IF u.id = req.user_id THEN active ELSE @] : u \in db}
        failed == Response(500,
                           CASE req.action = "ban" -> "Failed to ban user"
                             [] req.action = "unban" -> "Failed to unban user"
                             [] req.action = "verify" -> "Failed to verify user"
                             [] OTHER -> "Failed to make user premium",
                           {})
    IN CASE h.phase = "manage" ->
               IF req.role # "admin"
               THEN Returns(R, db, h, Response(403, "Insufficient permissions", {}))
               ELSE IF req.action \notin {"ban", "unban", "verify", "premium"}
               THEN Returns(R, db, h, Response(400, "Invalid action", {}))
               ELSE IF ~ok THEN Returns(R, db, h, failed)
               ELSE IF req.action = "ban"
               THEN Goes(R, set_active(FALSE), [h EXCEPT !.phase = "second"])
               ELSE IF req.action = "unban"
               THEN Goes(R, set_active(TRUE), [h EXCEPT !.phase = "log"])
               ELSE IF req.action = "verify"
               THEN Goes(R, db, [h EXCEPT !.phase = "log"])
               ELSE Goes(R, db, [h EXCEPT !.phase = "second"])
         [] h.phase = "second" ->
               IF ~ok THEN Returns(R, db, h, failed)
               ELSE Goes(R, db, [h EXCEPT !.phase = "log"])
         [] h.phase = "log" ->
               Returns(R, db, h, Response(200, "User action completed successfully", {}))

\* The handler h completes the await (or the clock reading) it is suspended
\* at when the clock reads clk.  ok says whether the awaited call completed
\* without an error, hashed whether hash_password returned a hash.
handler_step(R, db, cfg, h, clk, ok, hashed) ==
    CASE h.phase = "username" -> register_username(R, db, h, ok)
      [] h.phase = "email" -> register_email(R, db, h, ok, hashed)
      [] h.phase = "insert" -> register_insert(R, db, h, ok)
      [] h.phase = "select" -> login_select(R, db, h, ok)
      [] h.phase = "record_failure" -> login_record_failure(R, db, cfg, h, clk, ok)
      [] h.phase = "is_blocked" -> login_is_blocked(R, db, cfg, h, clk, ok)
      [] h.phase = "record_success" -> login_record_success(R, db, cfg, h, clk, ok)
      [] h.phase = "update" -> login_update(R, db, h, ok)
      [] h.phase \in {"access_exp", "access_iat", "refresh_exp", "refresh_iat"} ->
            login_tokens(R, db, cfg, h, clk)
      [] h.phase = "create_session" -> login_create_session(R, db, h, clk, ok)
      [] h.phase \in {"verify", "auth_query"} -> authenticate_user(R, db, cfg, h, clk, ok)
      [] h.phase \in {"manage", "second", "log"} -> manage_users(R, db, h, ok)

LoginRequests ==
    {[username |-> "alice", password |-> AccountPassword],
     [username |-> "alice@example.com", password |-> AccountPassword],
     [username |-> "alice", password |-> "guess"],
     [username |-> "nobody", password |-> "guess"],
     [username |-> "al", password |-> "guess"]}

\* the registration of the account, and two that validation refuses
RegisterRequests ==
    {[username |-> "alice", email |-> "alice@example.com", password |-> AccountPassword],
     [username |-> "alice", email |-> "alice@example.com", password |-> "guess"],
     [username |-> "alice", email |-> "not-an-email", password |-> AccountPassword]}

\* the last M elements of a sequence with x appended
Recent(seq, x, M) ==
    LET all == Append(seq, x)
    IN IF Len(all) <= M THEN all ELSE SubSeq(all, Len(all) - M + 1, Len(all))

-----------------------------------------------------------------------------
(* The HTTP workers that run the handlers.  One step of a worker is one     *)
(* await or clock reading of its handler.                                  *)

Handlers == {"h1", "h2"}

\* `at`: the clock when the request arrived
NothingMet == [blocked |-> FALSE, streak |-> FALSE, at |-> 0]

IdleHandler ==
    Handler("none", "idle", CHOOSE req \in LoginRequests : TRUE, NoUser, NoCall,
            "none", 0, NoToken, NoToken, NothingMet)

\* what a login request meets when its users query returns the account:
\* whether is_blocked is true of it, and whether the last max_login_attempts
\* logins have all recorded a wrong password inside one window
Met(req) ==
    LET found == FindUser(users, req.username)
        id == (CHOOSE u \in found : TRUE).id
        M == config.max_login_attempts
        W == (config.login_attempt_window \div 60) * 60
    IN IF ~Validate(req) \/ found = {}
       THEN [NothingMet EXCEPT !.at = now]
       ELSE [at |-> now,
             blocked |-> ZCARD(redis, LoginKey(id)) >= M,
             streak |-> /\ streak[id] = M
                        /\ Len(fails[id]) = M
                        /\ now - fails[id][1] < W]

\* the calls a login that returns from the given phase has made
CallsUpTo(phase) ==
    CASE phase = "select" -> <<>>
      [] phase = "record_failure" -> <<"verify_password", "record_attempt">>
      [] phase = "is_blocked" -> <<"verify_password", "is_blocked">>
      [] OTHER -> <<"verify_password", "is_blocked", "record_attempt",
                    "generate_token", "refresh_token", "create_session">>

\* the user's session is gone and the call before was the logout that removed
\* it, or an authenticate_user that followed that logout
LoggedOut(user_id) ==
    /\ GET(redis, SessKey(user_id)) = {}
    /\ \/ /\ auth_last.op = "logout"
          /\ auth_last.result.status = "Ok"
          /\ auth_last.token.payload.sub = user_id
          /\ verify_token(auth_last.token, config, auth_last.at).ok
       \/ /\ auth_last.op = "authenticate_user"
          /\ auth_last.was_revoked

HandlerFrame ==
    UNCHANGED <<now, config, worker_vars, trackers, parties, rl_log, sess_last,
                sess_model, trk_last, trk_clean, tok_last, callers>>

\* worker w, running handler h, completes the await h is suspended at
HandlerAwait(w, h) ==
    /\ \E ok \in BOOLEAN, hashed \in BOOLEAN :
       \E r \in {handler_step(redis, users, config, h, now, ok, hashed)} :
         LET id == r.handler.user.id
             M == config.max_login_attempts
             reached == h.op = "login" /\ r.handler.user # NoUser
             hasher == IF ~reached THEN "none"
                       ELSE LET hashed_pw == verify_password(h.req.password,
                                                             r.handler.user.password_hash)
                            IN IF ~hashed_pw.ok THEN "error"
                               ELSE IF hashed_pw.val THEN "match" ELSE "mismatch"
             wrong == h.req.password # AccountPassword
             zadd_ran == h.phase = "record_failure" /\ h.call.pc = "zadd" /\ ok
             reset_ran == h.phase = "record_success" /\ h.call.pc = "del" /\ ok
             clean_wrong == wrong /\ hasher = "mismatch" /\ ok
             stored == h.phase = "create_session" /\ h.call.pc = "command" /\ ok
             finished == r.done /\ h.op = "login"
         IN /\ hashed \/ h.phase = "email"
            /\ ok \/ h.phase \notin {"access_exp", "access_iat", "refresh_exp", "refresh_iat",
                                     "verify"}
            /\ redis' = r.store
            /\ users' = r.db
            /\ handlers' = [handlers EXCEPT ![w] = IF r.done THEN IdleHandler ELSE r.handler]
            /\ login_last' =
                 IF finished
                 THEN [found |-> reached,
                       wrong_password |-> wrong,
                       hasher |-> hasher,
                       blocked_check |-> r.handler.blocked_check,
                       calls |-> CallsUpTo(h.phase),
                       pre_blocked |-> reached /\ h.met.blocked,
                       pre_streak |-> reached /\ h.met.streak,
                       at |-> now,
                       access |-> IF r.resp.status = 200 THEN h.access ELSE NoToken,
                       refresh |-> IF r.resp.status = 200 THEN h.refresh ELSE NoToken,
                       resp |-> r.resp]
                 ELSE login_last
            \* `at`: the clock the token was verified at; active: the row of the
            \* token's subject is active when the call returns
            /\ auth_last' =
                 IF r.done /\ h.op = "authenticate_user"
                 THEN [op |-> "authenticate_user", token |-> h.req.token,
                       result |-> r.resp,
                       at |-> IF h.phase = "verify" THEN now ELSE h.t1,
                       was_revoked |-> LoggedOut(h.req.token.payload.sub),
                       db_fail |-> h.phase = "auth_query" /\ ~ok,
                       active |-> \E u \in users :
                                     u.id = h.req.token.payload.sub /\ u.is_active]
                 ELSE auth_last
            /\ fails' = IF zadd_ran THEN [fails EXCEPT ![id] = Recent(@, h.call.t, M)]
                        ELSE IF reset_ran THEN [fails EXCEPT ![id] = <<>>]
                        ELSE fails
            /\ streak' = IF finished /\ reached
                         THEN [streak EXCEPT ![id] =
                                 IF ~clean_wrong THEN 0
                                 ELSE IF @ < M THEN @ + 1 ELSE @]
                         ELSE streak
            \* a session stored for the token it issued makes that token live again
            /\ auth_hist' = IF stored
                            THEN [auth_hist EXCEPT !.revoked = @ \ r.resp.tokens]
                            ELSE auth_hist
            /\ answers' =
                 IF finished /\ Validate(h.req) /\ h.phase = "select" /\ ok
                 THEN [answers EXCEPT !.unknown = @ \cup {<<r.resp.status, r.resp.message>>}]
                 ELSE IF finished /\ reached /\ wrong
                 THEN [answers EXCEPT !.wrong = @ \cup {<<r.resp.status, r.resp.message>>}]
                 ELSE answers
    /\ HandlerFrame

\* a login request arrives: validation, then the users query
LoginBegin(w, Requests) ==
    /\ handlers[w].phase = "idle"
    /\ \E req \in Requests :
         HandlerAwait(w, Handler("login", "select", req, NoUser, NoCall, "none", 0,
                                 NoToken, NoToken, Met(req)))

\* a registration arrives: validation, then the query by username
RegisterBegin(w) ==
    /\ handlers[w].phase = "idle"
    /\ \E req \in RegisterRequests :
         HandlerAwait(w, Handler("register", "username", req, NoUser, NoCall, "none", 0,
                                 NoToken, NoToken, [NothingMet EXCEPT !.at = now]))

\* the next await of a handler in flight
HandlerAdvance(w) ==
    /\ handlers[w].phase # "idle"
    /\ HandlerAwait(w, handlers[w])

-----------------------------------------------------------------------------
(* Callers of the SessionManager.  Each method awaits the connection and    *)
(* then its one command; one step of a worker is one await of its call.    *)

SessFail == 0 .. 2

\* the refresh tokens presented: two tokens of the account, issued a second apart
SessTokens ==
    {refresh_token(Account(hash_password(AccountPassword)), ConfigDefault, t, t) : t \in {0, 1}}

SessCall(op, user_id, token, ret) ==
    [op |-> op, user |-> user_id, token |-> token, ret |-> ret, at |-> now]

Workers == {"a", "b"}

\* a worker: the call it is in and the token the call was given
IdleWorker ==
    [call |-> SessionCall("idle", "verify_session", CHOOSE id \in AccountIds : TRUE),
     token |-> CHOOSE token \in SessTokens : TRUE]

SessBegun == Len(sess_log) + Cardinality({w \in Workers : workers[w].call.pc # "idle"})

WorkerFrame ==
    UNCHANGED <<now, users, config, rl_log, login_last, fails, streak, auth_last,
                auth_hist, trk_last, trk_clean, tok_last, callers, trackers, handlers,
                answers, parties>>

\* worker w, in the call `call` given `token`, completes the await it is
\* suspended at.  A call that returns enters the history: the log of the
\* completed calls (logged), or the last call and the session the calls so
\* far leave alive.
SessAwait(w, call, token, logged) ==
    /\ \E ok \in BOOLEAN :
       \E r \in {session_step(redis, call, token, now, ok)} :
         /\ redis' = r.store
         /\ workers' = [workers EXCEPT ![w] = IF r.done THEN IdleWorker
                                              ELSE [call |-> r.call, token |-> token]]
         /\ sess_log' = IF r.done /\ logged
                        THEN Append(sess_log, [worker |-> w, op |-> call.op,
                                               token |-> token, ret |-> r.ret])
                        ELSE sess_log
         /\ sess_last' = IF r.done /\ ~logged
                         THEN SessCall(call.op, call.user, token, r.ret)
                         ELSE sess_last
         /\ sess_model' =
              IF r.done /\ ~logged /\ r.ret.ok /\ call.op = "create_session"
              THEN [sess_model EXCEPT ![call.user] =
                      {[token |-> token, at |-> now, over |-> {c.token : c \in @}]}]
              ELSE IF r.done /\ ~logged /\ r.ret.ok /\ call.op = "invalidate_session"
              THEN [sess_model EXCEPT ![call.user] = {}]
              ELSE sess_model
    /\ WorkerFrame

\* a call begins: get_async_connection
SessBegin(w, ops, logged) ==
    /\ workers[w].call.pc = "idle"
    /\ logged => SessBegun < MaxSessCalls
    /\ \E op \in ops, user_id \in AccountIds :
       \E token \in IF op = "invalidate_session" THEN {IdleWorker.token} ELSE SessTokens :
         SessAwait(w, SessionCall("connect", op, user_id), token, logged)

\* the command of a call in flight: SETEX, GET or DEL
SessAdvance(w, logged) ==
    /\ workers[w].call.pc # "idle"
    /\ SessAwait(w, workers[w].call, workers[w].token, logged)

CreateSession == \E w \in Workers : SessBegin(w, {"create_session"}, FALSE)

VerifySession == \E w \in Workers : SessBegin(w, {"verify_session"}, FALSE)

InvalidateSession == \E w \in Workers : SessBegin(w, {"invalidate_session"}, FALSE)

SessCommand == \E w \in Workers : SessAdvance(w, FALSE)

\* two workers creating and invalidating the session of one user, their
\* completed calls logged
WorkerStep ==
    \E w \in Workers :
       \/ SessBegin(w, {"create_session", "invalidate_session"}, TRUE)
       \/ SessAdvance(w, TRUE)

-----------------------------------------------------------------------------
(* Direct callers of the token codec.  Issuing reads the clock twice, and   *)
(* the clock may tick between the reads.                                   *)

TokenKinds == {"access", "refresh"}
TtlOf(kind) == IF kind = "access" THEN AccessTokenTtl ELSE RefreshTokenTtl

\* the instants of the codec's callers: the first seconds and the seconds
\* around the two expiries of tokens issued then
TokenInstants ==
    {0, 1} \cup
    UNION {{TtlOf(kind) - 1, TtlOf(kind), TtlOf(kind) + 1, TtlOf(kind) + Leeway,
            TtlOf(kind) + Leeway + 1, TtlOf(kind) + Leeway + 2} : kind \in TokenKinds}

\* the token with its expiry pushed out and the signature left as it was
Tampered(token) == [token EXCEPT !.payload.exp = @ + RefreshTokenTtl]

IssueToken ==
    /\ \E kind \in TokenKinds, tick \in {0, 1}, user \in users :
         LET t1 == now
             t2 == now + tick
             token == IF kind = "access"
                      THEN generate_token(user, config, t1, t2)
                      ELSE refresh_token(user, config, t1, t2)
         IN /\ t2 \in TokenInstants
            /\ tok_last' = [op |-> "issue", kind |-> kind, token |-> token,
                            t0 |-> t1,
                            embedded |-> Claims(user.id, user.username, user.role,
                                                t1 + TtlOf(kind), t2),
                            presented |-> token, at |-> t2, result |-> Ok(token.payload)]
            /\ now' = t2
            /\ redis' = Purge(redis, t2)
    /\ UNCHANGED <<users, config, worker_vars, trackers, handlers, answers, parties, rl_log, login_last, fails, streak, sess_last, sess_model,
                   auth_last, auth_hist, trk_last, trk_clean, callers>>

VerifyToken ==
    /\ tok_last.op # "none"
    /\ \E presented \in {tok_last.token, Tampered(tok_last.token)} :
         tok_last' = [tok_last EXCEPT !.op = "verify", !.presented = presented, !.at = now,
                                      !.result = verify_token(presented, config, now)]
    /\ UNCHANGED <<now, redis, users, config, worker_vars, trackers, handlers, answers, parties, rl_log, login_last, fails, streak,
                   sess_last, sess_model, auth_last, auth_hist, trk_last, trk_clean, callers>>

-----------------------------------------------------------------------------
(* Callers of the LoginAttemptTracker.  One step of a caller is one await   *)
(* of its call.                                                            *)

Trackers == {"t1", "t2"}

\* the caller that records attempts; the other one only asks is_blocked
Recorder == "t1"

IdleTracker == TrkCall("idle", "is_blocked", CHOOSE id \in AccountIds : TRUE, FALSE, 0)

\* a call that returned: what it was, what it returned, when, and the number
\* of members its key held before its last command
TrackerCall(op, user_id, success, ret, pre) ==
    [op |-> op, user |-> user_id, success |-> success, ret |-> ret, at |-> now,
     pre |-> pre]

\* caller c, in the call `call`, completes the await it is suspended at
TrkAwait(c, call) ==
    /\ \E ok \in BOOLEAN :
       \E r \in {tracker_step(redis, call, now, config, ok)} :
         LET recording == call.op = "record_attempt" /\ ~call.success
             zadd_ran == recording /\ ok /\ call.pc = "zadd"
             cut_short == recording /\ ~ok /\ call.pc \in {"zremrangebyscore", "expire"}
             reset_ran == call.op = "record_attempt" /\ ok /\ call.pc = "del"
             expire_ran == recording /\ ok /\ call.pc = "expire"
         IN /\ redis' = r.store
            /\ trackers' = [trackers EXCEPT ![c] = IF r.done THEN IdleTracker ELSE r.call]
            /\ trk_last' = IF r.done
                           THEN TrackerCall(call.op, call.user, call.success, r.ret,
                                            ZCARD(redis, LoginKey(call.user)))
                           ELSE trk_last
            /\ fails' = [fails EXCEPT ![call.user] =
                           IF zadd_ran THEN Recent(@, call.t, config.max_login_attempts)
                           ELSE IF reset_ran THEN <<>> ELSE @]
            /\ trk_clean' = [trk_clean EXCEPT ![call.user] =
                               IF cut_short THEN FALSE
                               ELSE IF reset_ran \/ expire_ran THEN TRUE ELSE @]
    /\ UNCHANGED <<now, users, config, worker_vars, handlers, answers, parties, rl_log, login_last, streak, sess_last, sess_model,
                   auth_last, auth_hist, tok_last, callers>>

\* a call begins: get_async_connection (and, in record_attempt, the clock)
TrkConnect(c) ==
    /\ trackers[c].pc = "idle"
    /\ \E user_id \in AccountIds :
         \/ /\ c = Recorder
            /\ \E success \in BOOLEAN :
                  TrkAwait(c, TrkCall("connect", "record_attempt", user_id, success, 0))
         \/ TrkAwait(c, TrkCall("connect", "is_blocked", user_id, FALSE, 0))

\* the next store command of a call in flight
TrkCommand(c) ==
    /\ trackers[c].pc # "idle"
    /\ TrkAwait(c, trackers[c])

TrackerStep == \E c \in Trackers : TrkConnect(c) \/ TrkCommand(c)

-----------------------------------------------------------------------------
(* The Authenticator's refresh and logout (specification 4.8): the token   *)
(* codec, then the session store.  `fail` is the session store's.          *)

AuthResult(status, tokens) == [status |-> status, tokens |-> tokens]

refresh(R, cfg, t, token, fail) ==
    LET verified == verify_token(token, cfg, t)
        claims == verified.val
        session == verify_session(R, claims.sub, token, fail)
        user == [id |-> claims.sub, username |-> claims.username, role |-> claims.role]
    IN IF ~verified.ok
       THEN AuthResult(IF verified.val = "ExpiredSignature"
                       THEN "TokenExpired" ELSE "TokenMalformed", {})
       ELSE IF ~session.ok THEN AuthResult("StoreUnavailable", {})
       ELSE IF ~session.val THEN AuthResult("SessionInvalid", {})
       ELSE AuthResult("Ok", {generate_token(user, cfg, t, t), token})

\* logout: a token that does not verify is a no-op success
logout(R, cfg, t, token, fail) ==
    LET verified == verify_token(token, cfg, t)
        gone == invalidate_session(R, verified.val.sub, fail)
    IN IF ~verified.ok THEN [store |-> R, result |-> AuthResult("Ok", {})]
       ELSE IF ~gone.ret.ok THEN [store |-> gone.store, result |-> AuthResult("StoreUnavailable", {})]
       ELSE [store |-> gone.store, result |-> AuthResult("Ok", {})]

\* the tokens a client presents: the refresh tokens login issues in the first
\* two seconds, and one signed with another key
AuthTokens ==
    SessTokens \cup
    {refresh_token(Account(hash_password(AccountPassword)),
                   [ConfigDefault EXCEPT !.jwt_secret = "not-the-key"], 0, 0)}

AuthCall(op, token, result, was_revoked) ==
    [op |-> op, token |-> token, result |-> result, at |-> now, was_revoked |-> was_revoked]

Refresh ==
    /\ \E token \in AuthTokens, fail \in SessFail :
       \E r \in {refresh(redis, config, now, token, fail)} :
         /\ auth_last' = AuthCall("refresh", token, r, token \in auth_hist.revoked)
         /\ auth_hist' = IF r.status = "Ok"
                         THEN [auth_hist EXCEPT !.accepted = @ \cup {token}]
                         ELSE auth_hist
    /\ UNCHANGED <<now, redis, users, config, worker_vars, trackers, handlers, answers, parties, rl_log, login_last, fails, streak,
                   sess_last, sess_model, trk_last, trk_clean, tok_last, callers>>

LogoutOf(Tokens, Fails) ==
    /\ \E token \in Tokens, fail \in Fails :
       \E r \in {logout(redis, config, now, token, fail)} :
         LET verified == verify_token(token, config, now)
             done == verified.ok /\ r.result.status = "Ok"
         IN /\ redis' = r.store
            /\ auth_last' = AuthCall("logout", token, r.result, token \in auth_hist.revoked)
            /\ auth_hist' =
                 IF done
                 THEN [accepted |-> {a \in auth_hist.accepted : a.payload.sub # verified.val.sub},
                       revoked |-> auth_hist.revoked \cup
                                   {a \in auth_hist.accepted : a.payload.sub = verified.val.sub}]
                 ELSE auth_hist
    /\ UNCHANGED <<now, users, config, worker_vars, trackers, handlers, answers, parties, rl_log, login_last, fails, streak,
                   sess_last, sess_model, trk_last, trk_clean, tok_last, callers>>

Logout == LogoutOf(AuthTokens, SessFail)

-----------------------------------------------------------------------------
(* Two parties, each with its own rate-limit key and its own account,      *)
(* calling every store-backed operation on the shared store, one await at  *)
(* a time.                                                                 *)

Parties == {"A", "B"}

RLKeyOf(p) == IF p = "A" THEN CHOOSE key \in RLKeys : TRUE ELSE OtherRLKey
AccountOf(p) == IF p = "A" THEN CHOOSE id \in AccountIds : TRUE ELSE OtherAccount
KeysOf(p) == {RLKeyOf(p), LoginKey(AccountOf(p)), SessKey(AccountOf(p))}

\* what the store holds under the party's keys
View(R, p) ==
    [z |-> [k \in ZKeys \cap KeysOf(p) |-> R.z[k]],
     s |-> [k \in SKeys \cap KeysOf(p) |-> R.s[k]],
     ttl |-> [k \in KeysOf(p) |-> R.ttl[k]]]

\* the store with nothing under the keys of the other parties
Alone(R, p) ==
    [z |-> [k \in ZKeys |-> IF k \in KeysOf(p) THEN R.z[k] ELSE {}],
     s |-> [k \in SKeys |-> IF k \in KeysOf(p) THEN R.s[k] ELSE {}],
     ttl |-> [k \in ZKeys \cup SKeys |-> IF k \in KeysOf(p) THEN R.ttl[k] ELSE {}]]

\* a party: the operation it is in, the call at its await, and the number of
\* calls it has begun
Party(op, call, n) == [op |-> op, call |-> call, n |-> n]

\* the calls a party can begin
FrameCalls(p) ==
    {[op |-> "check_rate_limit", call |-> RLCall("connect", RLKeyOf(p), 0)]}
    \cup {[op |-> "record_attempt",
           call |-> TrkCall("connect", "record_attempt", AccountOf(p), success, 0)] :
             success \in BOOLEAN}
    \cup {[op |-> "is_blocked",
           call |-> TrkCall("connect", "is_blocked", AccountOf(p), FALSE, 0)]}
    \cup {[op |-> op, call |-> SessionCall("connect", op, AccountOf(p))] :
             op \in {"create_session", "verify_session", "invalidate_session"}}

\* one await of the operation c.op
frame_step(R, c, clk, cfg, ok) ==
    IF c.op = "check_rate_limit"
    THEN check_rate_limit_step(R, c.call, clk, cfg.requests_per_minute, ok)
    ELSE IF c.op \in {"record_attempt", "is_blocked"}
    THEN tracker_step(R, c.call, clk, cfg, ok)
    ELSE session_step(R, c.call, CHOOSE token \in SessTokens : TRUE, clk, ok)

FrameRest ==
    UNCHANGED <<now, users, config, worker_vars, trackers, handlers, answers, rl_log,
                login_last, fails, streak, sess_last, sess_model, auth_last, auth_hist,
                trk_last, trk_clean, tok_last, callers>>

\* party p, in the call c, completes the await it is suspended at
FrameAwait(p, c) ==
    /\ \E ok \in BOOLEAN :
       \E r \in {frame_step(redis, c, now, config, ok)} :
         /\ redis' = r.store
         /\ parties' = [parties EXCEPT ![p] =
                          IF r.done THEN Party("none", NoCall, c.n)
                          ELSE Party(c.op, r.call, c.n)]
    /\ FrameRest

FrameBegin(p) ==
    /\ parties[p].op = "none"
    /\ parties[p].n < FrameCallsEach
    /\ \E c \in FrameCalls(p) : FrameAwait(p, Party(c.op, c.call, parties[p].n + 1))

FrameAdvance(p) ==
    /\ parties[p].op # "none"
    /\ FrameAwait(p, parties[p])

FrameStep == \E p \in Parties : FrameBegin(p) \/ FrameAdvance(p)

-----------------------------------------------------------------------------
(* The clock.  It moves to a later instant of the given set; the store     *)
(* drops the keys whose expiry has been reached.                           *)

RLInstants == {0, 1, RateWindow - 1, RateWindow, RateWindow + 1, 2 * RateWindow}

\* no call in flight has seen the clock move by more than MaxLatency when
\* the clock reads t
InTime(t) ==
    /\ \A c \in Callers : callers[c].pc = "idle" \/ t - callers[c].t <= MaxLatency
    /\ \A c \in Trackers :
          \/ trackers[c].pc = "idle"
          \/ trackers[c].op = "is_blocked"
          \/ t - trackers[c].t <= MaxLatency
    /\ \A w \in Handlers : handlers[w].phase = "idle" \/ t - handlers[w].met.at <= MaxLatency

Tick(Instants) ==
    /\ \E t \in Instants : t > now /\ InTime(t) /\ now' = t /\ redis' = Purge(redis, t)
    /\ UNCHANGED <<users, config, worker_vars, trackers, handlers, answers, parties, rl_log, login_last, fails, streak, sess_last, sess_model,
                   auth_hist, later_vars>>

-----------------------------------------------------------------------------
(* Initial states *)

InitCommon ==
    /\ now = 0
    /\ redis =
         [z |-> [k \in ZKeys |-> {}],
          s |-> [k \in SKeys |-> {}],
          ttl |-> [k \in ZKeys \cup SKeys |-> {}]]
    /\ rl_log = <<>>
    /\ login_last =
         [found |-> FALSE, wrong_password |-> FALSE, hasher |-> "none",
          blocked_check |-> "none", calls |-> <<>>, pre_blocked |-> FALSE,
          pre_streak |-> FALSE, at |-> 0, access |-> NoToken, refresh |-> NoToken,
          resp |-> Response(0, "", {})]
    /\ fails = [id \in AccountIds |-> <<>>]
    /\ streak = [id \in AccountIds |-> 0]
    /\ sess_last =
         [op |-> "none", user |-> "", token |-> CHOOSE token \in SessTokens : TRUE,
          ret |-> Err, at |-> 0]
    /\ sess_model = [id \in AccountIds |-> {}]
    /\ auth_last =
         [op |-> "none", token |-> CHOOSE token \in SessTokens : TRUE,
          result |-> AuthResult("none", {}), at |-> 0, was_revoked |-> FALSE]
    /\ auth_hist = [accepted |-> {}, revoked |-> {}]
    /\ trk_last =
         [op |-> "none", user |-> "", success |-> FALSE, ret |-> Err, at |-> 0, pre |-> 0]
    /\ trk_clean = [id \in AccountIds |-> TRUE]
    /\ trackers = [c \in Trackers |-> IdleTracker]
    /\ tok_last =
         [op |-> "none", kind |-> "access", token |-> CHOOSE token \in SessTokens : TRUE,
          t0 |-> 0, embedded |-> (CHOOSE token \in SessTokens : TRUE).payload,
          presented |-> CHOOSE token \in SessTokens : TRUE, at |-> 0,
          result |-> TokenErr("none")]
    /\ callers = [c \in Callers |-> Idle]
    /\ workers = [w \in Workers |-> IdleWorker]
    /\ sess_log = <<>>
    /\ handlers = [w \in Handlers |-> IdleHandler]
    /\ answers = [unknown |-> {}, wrong |-> {}]
    /\ parties = [p \in Parties |-> Party("none", NoCall, 0)]

InitRL ==
    /\ InitCommon
    /\ users = {}
    /\ config = [ConfigDefault EXCEPT !.requests_per_minute = ModelRequestsPerMinute]

\* register and login under Config::default() with max_login_attempts lowered
\* to the model's.  The users table starts empty, or with a row whose stored
\* hash is a value bcrypt cannot parse.  The instants give max_login_attempts
\* distinct seconds inside one window and the second at which the first of
\* them has left it.
LoginInstants ==
    (0 .. ModelMaxAttempts - 1)
    \cup {DefaultLoginAttemptWindow}

InitLogin ==
    /\ InitCommon
    /\ users \in {{}, {Account(CorruptHash)}}
    /\ config = [ConfigDefault EXCEPT !.max_login_attempts = ModelMaxAttempts]

\* the worker of the specifications that serve one request at a time
Worker == CHOOSE w \in Handlers : TRUE

Register == RegisterBegin(Worker)

Login == LoginBegin(Worker, LoginRequests)

Advance == HandlerAdvance(Worker)

NextLogin == Register \/ Login \/ Advance \/ Tick(LoginInstants)

SpecLogin == InitLogin /\ [][NextLogin]_vars

\* the SessionManager called directly, at the instants around the session ttl
SessInstants ==
    {0, 1, SessionTtl - 1, SessionTtl, SessionTtl + 1, 2 * SessionTtl}

InitSess ==
    /\ InitCommon
    /\ users = {Account(hash_password(AccountPassword))}
    /\ config = ConfigDefault

NextSess ==
    CreateSession \/ VerifySession \/ InvalidateSession \/ SessCommand \/ Tick(SessInstants)

SpecSess == InitSess /\ [][NextSess]_vars

\* login, refresh and logout under Config::default(), in the two seconds
\* in which the presented refresh tokens are issued
AuthInstants == {0, 1}

\* the account's owner signing in, by username or by e-mail address
OwnerRequests == {req \in LoginRequests : req.password = AccountPassword}

LoginOwner == LoginBegin(Worker, OwnerRequests)

NextAuth == LoginOwner \/ Advance \/ Refresh \/ Logout \/ Tick(AuthInstants)

SpecAuth == InitSess /\ [][NextAuth]_vars

\* the owner signing in, up to the second the stored session expires
OwnerInstants == {0, 1, SessionTtl - 1, SessionTtl}

NextOwner == LoginOwner \/ Advance \/ Tick(OwnerInstants)

SpecOwner == InitSess /\ [][NextOwner]_vars

\* login, logout, requests that carry the issued tokens and the
\* administrator's bans, up to the second after the access token's expiry
\* and leeway
AccessInstants == {0, AccessTokenTtl + Leeway, AccessTokenTtl + Leeway + 1}

\* a request reaches the auth middleware with one of the tokens the last
\* login issued, or with a token signed with another key
AuthenticateUser ==
    /\ handlers[Worker].phase = "idle"
    /\ \E token \in login_last.resp.tokens \cup (AuthTokens \ SessTokens) :
         HandlerAwait(Worker, Handler("authenticate_user", "verify", [token |-> token],
                                      NoUser, NoCall, "none", 0, NoToken, NoToken,
                                      [NothingMet EXCEPT !.at = now]))

\* an administrator, or a user who is none, bans or unbans the account,
\* verifies it or makes it premium, or asks for an action there is none of
ManageRequests ==
    {[role |-> "admin", action |-> action, user_id |-> id] :
        action \in {"ban", "unban", "verify", "premium", "demote"}, id \in AccountIds}
    \cup {[role |-> "viewer", action |-> "ban", user_id |-> id] : id \in AccountIds}

\* a request reaches manage_users on a worker of its own
ManageUsers ==
    \E w \in Handlers \ {Worker} :
       /\ handlers[w].phase = "idle"
       /\ \E req \in ManageRequests :
            HandlerAwait(w, Handler("manage_users", "manage", req, NoUser, NoCall, "none",
                                    0, NoToken, NoToken, [NothingMet EXCEPT !.at = now]))

\* the owner signs in while the clock reads no more than LastLogin
NextAccess ==
    \/ (now <= LastLogin /\ LoginOwner) \/ AuthenticateUser \/ Advance
    \/ ManageUsers \/ (\E w \in Handlers \ {Worker} : HandlerAdvance(w))
    \/ LogoutOf({login_last.refresh}, {0})
    \/ Tick(AccessInstants)

SpecAccess == InitSess /\ [][NextAccess]_vars

\* two parties on the shared store, with the limits lowered to the model's
FrameInstants == {0, 1}

InitFrame ==
    /\ InitCommon
    /\ users = {}
    /\ config = [ConfigDefault EXCEPT !.requests_per_minute = ModelRequestsPerMinute,
                                     !.max_login_attempts = FrameMaxAttempts]

NextFrame == FrameStep \/ Tick(FrameInstants)

SpecFrame == InitFrame /\ [][NextFrame]_vars

\* the LoginAttemptTracker called directly, as login constructs it
InitTracker ==
    /\ InitCommon
    /\ users = {}
    /\ config = [ConfigDefault EXCEPT !.max_login_attempts = ModelMaxAttempts]

\* max_login_attempts + 1 distinct seconds inside one window, and the two
\* seconds at which the window has elapsed since the last two of them
TrackerInstants ==
    (0 .. ModelMaxAttempts)
    \cup {DefaultLoginAttemptWindow + ModelMaxAttempts - 1,
          DefaultLoginAttemptWindow + ModelMaxAttempts}

NextTracker == TrackerStep \/ Tick(TrackerInstants)

SpecTracker == InitTracker /\ [][NextTracker]_vars

\* a caller who does not know the password probing identifiers
GuessRequests == {req \in LoginRequests : req.password # AccountPassword}

LoginGuess == LoginBegin(Worker, GuessRequests)

InitGuess ==
    /\ InitCommon
    /\ users = {Account(hash_password(AccountPassword))}
    /\ config = [ConfigDefault EXCEPT !.max_login_attempts = ModelMaxAttempts]

NextGuess == LoginGuess \/ Advance \/ Tick(LoginInstants)

SpecGuess == InitGuess /\ [][NextGuess]_vars

\* two workers serving logins at once: one the owner's, one a guesser's
Serve ==
    \/ LoginBegin(Worker, OwnerRequests)
    \/ LoginBegin(CHOOSE w \in Handlers : w # Worker, GuessRequests)
    \/ \E w \in Handlers : HandlerAdvance(w)

\* the clock stands still: the two requests arrive in the same second
SpecServe == InitGuess /\ [][Serve]_vars

\* wrong-password logins under a login_attempt_window below a minute, between
\* one and two minutes, and the default
WindowChoices == {59, 119, DefaultLoginAttemptWindow}

WindowInstants ==
    (0 .. ModelMaxAttempts - 1) \cup {60, 61, DefaultLoginAttemptWindow + 1}

InitWindow ==
    /\ InitCommon
    /\ users = {Account(hash_password(AccountPassword))}
    /\ \E w \in WindowChoices :
         config = [ConfigDefault EXCEPT !.max_login_attempts = ModelMaxAttempts,
                                        !.login_attempt_window = w]

NextWindow == LoginGuess \/ Advance \/ Tick(WindowInstants)

SpecWindow == InitWindow /\ [][NextWindow]_vars

\* the token codec called directly
NextToken == IssueToken \/ VerifyToken \/ Tick(TokenInstants)

SpecToken == InitSess /\ [][NextToken]_vars

\* two workers calling check_rate_limit on the shared store, a call taking up
\* to a second
RaceInstants == {0, 1, RateWindow}

NextRace == CallerStep \/ Tick(RaceInstants)

SpecRace == InitRL /\ [][NextRace]_vars

\* two workers creating and invalidating the session of one user
WorkerInstants == {0, 1}

NextWorkers == WorkerStep \/ Tick(WorkerInstants)

SpecWorkers == InitSess /\ [][NextWorkers]_vars

NextRL == SoloStep \/ Tick(RLInstants)

SpecRL == InitRL /\ [][NextRL]_vars

-----------------------------------------------------------------------------
(* Rate limiter: what the history says *)

\* the calls made on key k, in order
CallsOn(k) == SelectSeq(rl_log, LAMBDA c : c.key = k)

Admitted(c) == c.ret = Ok(TRUE)
Denied(c) == c.ret = Ok(FALSE)
\* the call ran its ZADD: it was admitted, or only its EXPIRE failed
RecordedEvent(c) == c.added

\* the stored events of key k that lie inside the window ending at the clock
WindowEvents(k) == {m \in redis.z[k] : m > now - RateWindow}

\* C4: of the first N+1 calls on a key, made without a store error and all
\* within less than the window, calls 1..N return true and call N+1 returns
\* false.
C4_AdmitsExactlyN ==
    \A k \in RLKeys :
        LET calls == CallsOn(k)
            N == config.requests_per_minute
        IN \A i \in 1 .. Len(calls) :
              ( /\ i <= N + 1
                /\ \A j \in 1 .. i : calls[j].ret.ok
                /\ calls[i].t - calls[1].t < RateWindow )
              => (calls[i].ret = Ok(i <= N))

\* C5: every trailing interval of length W, taken at an admitted call, holds
\* at most N admitted calls of the key.
C5_SlidingWindowCap ==
    \A k \in RLKeys :
        LET calls == CallsOn(k)
        IN \A i \in 1 .. Len(calls) :
              Admitted(calls[i]) =>
                 Cardinality({j \in 1 .. i :
                                 /\ Admitted(calls[j])
                                 /\ calls[j].t > calls[i].t - RateWindow})
                   <= config.requests_per_minute

\* this step is an await of caller c that comes before its ZADD: the
\* connection, the eviction or the count
BeforeAdd(c) ==
    /\ callers[c].pc \in {"idle", "zremrangebyscore", "zcard"}
    /\ callers'[c] # callers[c] \/ rl_log' # rl_log

\* this step is the return of Ok(false) by a call on k
DeniedCall(k) ==
    /\ Len(rl_log') = Len(rl_log) + 1
    /\ rl_log'[Len(rl_log')].key = k
    /\ Denied(rl_log'[Len(rl_log')])

\* C6: a call that returns false leaves the stored in-window events of its
\* key as they were: so does every await it goes through, which are the
\* awaits before the ZADD, and the step that returns false is one of them.
C6_DeniedRecordsNothing ==
    [][\A k \in RLKeys :
          /\ \A c \in Callers : BeforeAdd(c) => WindowEvents(k)' = WindowEvents(k)
          /\ DeniedCall(k) => \E c \in Callers : BeforeAdd(c)]_vars

\* a denied call has happened on a key that holds in-window events
C6_Witness ==
    \E k \in RLKeys :
        /\ Len(rl_log) > 0
        /\ rl_log[Len(rl_log)].key = k
        /\ Denied(rl_log[Len(rl_log)])
        /\ rl_log[Len(rl_log)].t = now
        /\ Cardinality(WindowEvents(k)) >= config.requests_per_minute

\* C7, rate limiter half: a call is denied only if at least N calls that
\* recorded their event at times newer than (its now - W) exist for the key.
C7_RateLimiterHalf ==
    \A k \in RLKeys :
        LET calls == CallsOn(k)
        IN \A i \in 1 .. Len(calls) :
              Denied(calls[i]) =>
                 Cardinality({j \in 1 .. i - 1 :
                                 /\ RecordedEvent(calls[j])
                                 /\ calls[j].t > calls[i].t - RateWindow})
                   >= config.requests_per_minute

\* call i on the key came after a denial, got an answer from the store, and
\* every event recorded before it is at least a window old
AfterQuietWindow(calls, i) ==
    /\ calls[i].ret.ok
    /\ \E j \in 1 .. i - 1 : Denied(calls[j])
    /\ \A j \in 1 .. i - 1 :
          RecordedEvent(calls[j]) => calls[i].t >= calls[j].t + RateWindow

\* C15: once check_rate_limit has denied a key, a call made at least W after
\* the last admitted call of the key returns true.
C15_ReadmittedAfterWindow ==
    \A k \in RLKeys :
        LET calls == CallsOn(k)
        IN \A i \in 1 .. Len(calls) :
              AfterQuietWindow(calls, i) => calls[i].ret = Ok(TRUE)

\* the key was filled and denied, a window went by, and the call just made
\* was admitted
C15_Witness ==
    \E k \in RLKeys :
        LET calls == CallsOn(k)
            n == Len(calls)
        IN /\ n > config.requests_per_minute + 1
           /\ AfterQuietWindow(calls, n)
           /\ calls[n].ret = Ok(TRUE)
           /\ calls[n].t = now
           /\ \E j \in 1 .. n - 1 : Admitted(calls[j]) /\ calls[j].t + RateWindow = now

\* the admitted calls of key k whose timestamps lie in the window ending at t
AdmittedInWindow(k, t) ==
    {j \in 1 .. Len(rl_log) :
        /\ rl_log[j].key = k
        /\ Admitted(rl_log[j])
        /\ rl_log[j].t > t - RateWindow
        /\ rl_log[j].t <= t}

\* C20: two concurrent callers can both read a count below N and both be
\* admitted, so a window can hold N+1 admitted calls, and never more than
\* N+1.
C20_AtMostOneOverTheLimit ==
    \A k \in RLKeys : \A i \in 1 .. Len(rl_log) :
        Cardinality(AdmittedInWindow(k, rl_log[i].t)) <= config.requests_per_minute + 1

-----------------------------------------------------------------------------
(* Login and the attempt tracker: what the history says *)

MaxAttempts == config.max_login_attempts
LoginWindow == (config.login_attempt_window \div 60) * 60

InvalidCredentials == Response(401, "Invalid credentials", {})

\* what is_blocked returns when its ZCARD reaches the store now
BlockedNow(id) ==
    is_blocked_step(redis, TrkCall("zcard", "is_blocked", id, FALSE, 0), MaxAttempts, TRUE).ret
       = Ok(TRUE)

\* the position of a call in the last login's calls, 0 when it was not made
CallIndex(name) ==
    LET at == {i \in 1 .. Len(login_last.calls) : login_last.calls[i] = name}
    IN IF at = {} THEN 0 ELSE CHOOSE i \in at : \A j \in at : i <= j

\* the last max_attempts logins of the account were wrong-password attempts
\* that recorded their failure, the first of them less than a window ago
FailuresInOneWindow(id) ==
    /\ streak[id] = MaxAttempts
    /\ Len(fails[id]) = MaxAttempts
    /\ now - fails[id][1] < LoginWindow

\* C1: a login that reaches an existing account checks is_blocked before it
\* verifies the password, and a blocked account gets TooManyAttempts without
\* the hasher being called.
C1_BlockedBeforeHasher ==
    login_last.found =>
       /\ CallIndex("verify_password") > 0 =>
             /\ CallIndex("is_blocked") > 0
             /\ CallIndex("is_blocked") < CallIndex("verify_password")
       /\ login_last.pre_blocked =>
             /\ login_last.resp.status = 429
             /\ CallIndex("verify_password") = 0

\* C2: after max_attempts consecutive wrong-password logins inside the window,
\* the next login inside the window gets TooManyAttempts, whatever its password.
C2_LockedOutAfterMaxAttempts ==
    login_last.pre_streak => login_last.resp.status = 429

\* C3: after max_attempts recorded failures inside one window, with no success
\* in between, is_blocked returns true.
C3_LockoutThreshold ==
    \A id \in AccountIds : FailuresInOneWindow(id) => BlockedNow(id)

\* the recorded failures of the account newer than now - window
FailuresInWindow(id) ==
    {i \in 1 .. Len(fails[id]) : fails[id][i] > now - LoginWindow}

\* C7: a decision counts only events inside the trailing window: is_blocked is
\* true only if at least max_attempts failures newer than now - window are
\* recorded, and check_rate_limit denies only if at least N recorded events
\* newer than now - window exist.  The tracker half is stated on histories
\* whose last max_attempts logins recorded their failure without a store fault.
C7_OnlyWindowEventsCount ==
    /\ \A id \in AccountIds :
          (BlockedNow(id) /\ streak[id] = MaxAttempts)
             => Cardinality(FailuresInWindow(id)) >= MaxAttempts
    /\ C7_RateLimiterHalf

\* C8: a store error during the is_blocked check ends login in a failure that
\* is neither success nor a credentials or lockout answer, and returns no token.
C8_FailClosedOnStoreOutage ==
    login_last.blocked_check = "error" =>
       /\ login_last.resp.status \notin {200, 401, 429}
       /\ login_last.resp.tokens = {}

\* C9: a hasher error is reported as a failure distinct from InvalidCredentials
\* and is not recorded as a failed login attempt.
C9_HasherFaultNotDowngraded ==
    login_last.hasher = "error" =>
       /\ login_last.resp # InvalidCredentials
       /\ CallIndex("record_attempt") = 0

\* the last call was a record_attempt(account, true) that returned Ok
ResetDone ==
    /\ trk_last.op = "record_attempt"
    /\ trk_last.success
    /\ trk_last.ret.ok

\* this step is the DEL of a record_attempt(account, true) of caller c, and
\* the call returns Ok
ResetStep(c) ==
    /\ trackers[c].op = "record_attempt"
    /\ trackers[c].pc = "del"
    /\ trackers'[c] # trackers[c]
    /\ trk_last'.ret.ok

\* C13: right after a record_attempt(account, true) the account has no stored
\* failure and is_blocked is false, whatever was stored before.
C13_SuccessClearsHistory ==
    [][\A c \in Trackers :
          ResetStep(c) =>
             /\ ZCARD(redis', LoginKey(trackers[c].user)) = 0
             /\ ~BlockedNow(trackers[c].user)']_vars

\* a reset has just emptied a history that held more than max_attempts failures
C13_Witness ==
    /\ ResetDone
    /\ trk_last.at = now
    /\ trk_last.pre > MaxAttempts
    /\ ZCARD(redis, LoginKey(trk_last.user)) = 0
    /\ ~BlockedNow(trk_last.user)

\* the time of the account's most recent stored failure
LastFailure(id) == fails[id][Len(fails[id])]

\* no record_attempt for the account is in flight
Settled(id) ==
    \A c \in Trackers :
        trackers[c].pc = "idle" \/ trackers[c].op # "record_attempt" \/ trackers[c].user # id

\* C14: once the window has elapsed since the most recent recorded failure of
\* an account, is_blocked returns false, without any unblock call.
C14_LockoutAgesOut ==
    \A id \in AccountIds :
       ( /\ fails[id] # <<>>
         /\ trk_clean[id]
         /\ Settled(id)
         /\ now >= LastFailure(id) + LoginWindow )
       => ~BlockedNow(id)

-----------------------------------------------------------------------------
(* Sessions: what the history says *)

\* the session the calls so far leave alive for the user at time t holds token
LiveSession(user_id, token, t) ==
    \E c \in sess_model[user_id] : c.token = token /\ t < c.at + SessionTtl

\* C10: verify_session(u, t) returns true exactly when the most recent
\* create_session for u not followed by invalidate_session(u) stored t and its
\* ttl has not elapsed.
C10_VerifyMatchesLastCreate ==
    (sess_last.op = "verify_session" /\ sess_last.ret.ok) =>
       (sess_last.ret.val <=> LiveSession(sess_last.user, sess_last.token, sess_last.at))

\* create(u, t1), create(u, t2), then verify(u, t1): the superseded token is
\* refused while the token that replaced it is alive
C10_Witness ==
    /\ sess_last.op = "verify_session"
    /\ sess_last.ret = Ok(FALSE)
    /\ \E c \in sess_model[sess_last.user] :
          /\ c.token # sess_last.token
          /\ sess_last.token \in c.over
          /\ sess_last.at < c.at + SessionTtl
          /\ GET(redis, SessKey(sess_last.user)) = {c.token}

\* the tokens verify_session accepts for the user, the store being reachable
Verifying(user_id) ==
    {token \in SessTokens : verify_session(redis, user_id, token, 0) = Ok(TRUE)}

\* both workers are idle and the two calls completed last are one
\* create_session of each that returned Ok
TwoLoginsDone ==
    /\ \A w \in Workers : workers[w].call.pc = "idle"
    /\ Len(sess_log) >= 2
    /\ LET n == Len(sess_log)
       IN /\ sess_log[n].worker # sess_log[n - 1].worker
          /\ \A i \in {n - 1, n} :
                sess_log[i].op = "create_session" /\ sess_log[i].ret.ok

\* C21: at most one token verifies for a user in every state, under every
\* interleaving of create_session and invalidate_session; once two concurrent
\* create_session calls for the user have completed, exactly one of the two
\* tokens verifies.
C21_SingleSessionPerUser ==
    \A user_id \in AccountIds :
       /\ Cardinality(Verifying(user_id)) <= 1
       /\ TwoLoginsDone =>
             LET n == Len(sess_log)
             IN Cardinality(Verifying(user_id)
                              \cap {sess_log[n - 1].token, sess_log[n].token}) = 1

\* two workers have stored different tokens and the one stored last is the
\* one that verifies
C21_Witness ==
    /\ TwoLoginsDone
    /\ sess_log[Len(sess_log)].token # sess_log[Len(sess_log) - 1].token
    /\ \A user_id \in AccountIds : Verifying(user_id) = {sess_log[Len(sess_log)].token}

-----------------------------------------------------------------------------
(* Login, refresh, logout: what the history says *)

\* the last call was a refresh of a token that an earlier refresh accepted,
\* whose session a logout then invalidated, and that has not expired
RefreshAfterLogout ==
    /\ auth_last.op = "refresh"
    /\ auth_last.was_revoked
    /\ auth_last.at < auth_last.token.payload.exp

\* C11: a refresh token accepted once by refresh, whose session was then
\* invalidated by logout, is refused when submitted again before its expiry:
\* no token is issued, and the answer is SessionInvalid whenever the session
\* store answers.
C11_RefreshAfterLogoutRefused ==
    RefreshAfterLogout =>
       /\ auth_last.result.tokens = {}
       /\ auth_last.result.status \in {"SessionInvalid", "StoreUnavailable"}

C11_Witness ==
    /\ RefreshAfterLogout
    /\ auth_last.result = AuthResult("SessionInvalid", {})
    /\ auth_last.token \in auth_hist.revoked

\* the last login sent the account's password, found the account and its hash
\* matched
OwnerLogin ==
    /\ login_last.found
    /\ ~login_last.wrong_password
    /\ login_last.hasher = "match"

\* C16: with no failure ever recorded, every login with the account's correct
\* password succeeds, however many are made in a row, and the account's
\* failure history stays empty.
C16_CorrectLoginsNeverBlock ==
    OwnerLogin =>
       /\ login_last.resp.status = 200
       /\ login_last.resp.message = "Login successful"
       /\ \A id \in AccountIds : ZCARD(redis, LoginKey(id)) = 0

\* a correct login has just succeeded while the store still holds the
\* session of an earlier correct login, made in an earlier second
C16_Witness ==
    /\ OwnerLogin
    /\ login_last.resp.status = 200
    /\ login_last.at = now
    /\ \A token \in login_last.resp.tokens : token.payload.iat = now
    /\ \E id \in AccountIds :
          \E earlier \in GET(redis, SessKey(id)) : earlier.payload.iat < now
    /\ \A id \in AccountIds : ZCARD(redis, LoginKey(id)) = 0

\* C17: a login that names no active account and a login that names an
\* existing account with a wrong password get the same status and the same
\* message, in every state of the store they meet: every answer given to the
\* first kind equals every answer given to the second.
C17_UnknownAndWrongPasswordAlike ==
    \A unknown \in answers.unknown, wrong \in answers.wrong : unknown = wrong

\* a wrong-password login on an account that is_blocked reports as blocked has
\* just been answered, and the answer is the unknown-account answer
C17_Witness ==
    /\ login_last.found
    /\ login_last.wrong_password
    /\ login_last.pre_blocked
    /\ answers.unknown # {}
    /\ <<login_last.resp.status, login_last.resp.message>> \in answers.unknown
    /\ <<login_last.resp.status, login_last.resp.message>> \in answers.wrong

-----------------------------------------------------------------------------
(* Tokens: what the history says *)

\* the last call verified the token as it was issued
VerifiedIssued == tok_last.op = "verify" /\ tok_last.presented = tok_last.token

\* C18: a token issued at t0 with ttl T verifies at every t with
\* t0 <= t < t0 + T, and the claims returned are the claims embedded.
C18_TokenRoundTrip ==
    (VerifiedIssued /\ tok_last.at < tok_last.t0 + TtlOf(tok_last.kind))
       => tok_last.result = Ok(tok_last.embedded)

\* a token was verified in the last second of its life, after the clock had
\* ticked during its issuance
C18_Witness ==
    /\ VerifiedIssued
    /\ tok_last.at = tok_last.t0 + TtlOf(tok_last.kind) - 1
    /\ tok_last.embedded.iat = tok_last.t0 + 1
    /\ tok_last.result = Ok(tok_last.embedded)

\* C19: a token issued at t0 with ttl T is refused as expired at every
\* t >= t0 + T, t0 + T included.
C19_ExpiredFromTtlOn ==
    (VerifiedIssued /\ tok_last.at >= tok_last.t0 + TtlOf(tok_last.kind))
       => (~tok_last.result.ok /\ tok_last.result.val = "ExpiredSignature")

\* the session store, reachable, holds this token as the live session of its subject
SessionLive(R, token) == verify_session(R, token.payload.sub, token, 0) = Ok(TRUE)

\* C12: the session login stored for the refresh token it issued stays
\* verifiable while only time passes (no login, no logout) and the token has
\* not expired.
C12_SessionLivesAsLongAsToken ==
    [][\A token \in login_last.resp.tokens :
          ( /\ SessionLive(redis, token)
            /\ now' > now
            /\ now' < token.payload.exp )
          => SessionLive(redis', token)]_vars

-----------------------------------------------------------------------------
(* The SessionManager during a store outage *)

\* the SessionManager calls at their two awaits
SessionCalls ==
    {SessionCall(pc, op, user_id) :
        pc \in {"connect", "command"},
        op \in {"create_session", "verify_session", "invalidate_session"},
        user_id \in AccountIds}

\* C22: with the store unreachable, create_session, verify_session and
\* invalidate_session each return an error, never Ok(true) or Ok(false), and
\* the failed call leaves the stored session as it was: this holds of the
\* connection and of the command of every call, in every reachable store.
C22_OutageIsAnError ==
    \A c \in SessionCalls, token \in SessTokens :
       \A r \in {session_step(redis, c, token, now, FALSE)} :
          /\ r.done
          /\ r.ret = Err
          /\ r.store = redis

\* a verify_session of the token that is stored has met an outage
C22_Witness ==
    /\ sess_last.op = "verify_session"
    /\ sess_last.ret = Err
    /\ GET(redis, SessKey(sess_last.user)) = {sess_last.token}
    /\ LiveSession(sess_last.user, sess_last.token, now)

-----------------------------------------------------------------------------
(* Access tokens and the session store *)

\* the token is one the last login issued with the access profile
IssuedAccess(token) ==
    /\ token \in login_last.resp.tokens
    /\ token = login_last.access

\* C23: the verdict of authenticate_user on an access token that login
\* issued and that had not expired when it was verified is the same in every
\* state of the session store, the one after logout removed the user's
\* session included: the token is accepted, with the row of its subject,
\* exactly when the users query succeeds and finds the account active.
C23_AccessTokenIgnoresSessions ==
    ( /\ auth_last.op = "authenticate_user"
      /\ IssuedAccess(auth_last.token)
      /\ auth_last.at < auth_last.token.payload.exp )
    => /\ auth_last.result.ok <=> (~auth_last.db_fail /\ auth_last.active)
       /\ auth_last.result.ok => auth_last.result.val.id = auth_last.token.payload.sub

\* an access token was accepted after the logout that removed the session
C23_Witness ==
    /\ auth_last.op = "authenticate_user"
    /\ IssuedAccess(auth_last.token)
    /\ auth_last.was_revoked
    /\ auth_last.at < auth_last.token.payload.exp
    /\ auth_last.result.ok

-----------------------------------------------------------------------------
(* Operations on different keys *)

\* the calls of which party p can complete an await in this state
Pending(p) ==
    IF parties[p].op = "none"
    THEN {Party(c.op, c.call, parties[p].n + 1) : c \in FrameCalls(p)}
    ELSE {parties[p]}

\* what an await gives: whether the function returns, what it returns, and
\* the await it goes on to
Outcome(r) == <<r.done, r.ret, r.call>>

\* C24: an await of check_rate_limit, record_attempt, is_blocked,
\* create_session, verify_session or invalidate_session by one party leaves
\* everything stored under the other party's keys as it was, and decides what
\* it decides when the other party's keys hold nothing, whatever awaits of
\* the two parties came before and however they interleave: this holds of
\* every await a party can complete in every reachable state.
C24_KeysAreIndependent ==
    \A p \in Parties :
       \A c \in Pending(p), ok \in BOOLEAN :
          \A r \in {frame_step(redis, c, now, config, ok)} :
             /\ \A q \in Parties \ {p} : View(r.store, q) = View(redis, q)
             /\ Outcome(r) = Outcome(frame_step(Alone(redis, p), c, now, config, ok))

\* one party is about to be found blocked while the other party, in the
\* middle of a call, holds failures of its own and a session
C24_Witness ==
    \E p \in Parties, q \in Parties :
       /\ q # p
       /\ parties[p].op = "is_blocked"
       /\ parties[p].call.pc = "zcard"
       /\ ZCARD(redis, LoginKey(AccountOf(p))) >= config.max_login_attempts
       /\ parties[q].op # "none"
       /\ redis.z[LoginKey(AccountOf(q))] # {}
       /\ redis.z[LoginKey(AccountOf(q))] # redis.z[LoginKey(AccountOf(p))]
       /\ redis.s[SessKey(AccountOf(q))] # {}

-----------------------------------------------------------------------------
(* Refresh tokens presented as bearer tokens *)

\* the token generate_token issues with the claims of the given token
AccessTwin(token) ==
    generate_token(CHOOSE u \in users : u.id = token.payload.sub, config,
                   token.payload.exp - AccessTokenTtl, token.payload.iat)

\* what authenticate_user returns for the token when both of its steps run
\* at the clock t and the query succeeds
Authenticated(token, t) ==
    LET arrived == Handler("authenticate_user", "verify", [token |-> token], NoUser,
                           NoCall, "none", 0, NoToken, NoToken, NothingMet)
        verified == authenticate_user(redis, users, config, arrived, t, TRUE)
    IN IF verified.done THEN verified.resp
       ELSE authenticate_user(redis, users, config, verified.handler, t, TRUE).resp

\* C25: verify_token accepts an unexpired token that refresh_token issued
\* and returns its claims, authenticate_user accepts it, and the verdict is
\* the one given to the token generate_token issues with the same claims.
C25_RefreshTokenVerifiesAsAccess ==
    ( /\ VerifiedIssued
      /\ tok_last.kind = "refresh"
      /\ tok_last.at < tok_last.token.payload.exp )
    => /\ tok_last.result = Ok(tok_last.token.payload)
       /\ Authenticated(tok_last.token, tok_last.at).ok
       /\ tok_last.result = verify_token(AccessTwin(tok_last.token), config, tok_last.at)

\* a refresh token was accepted at a time when the access token issued with
\* it has expired
C25_Witness ==
    /\ VerifiedIssued
    /\ tok_last.kind = "refresh"
    /\ tok_last.at > tok_last.t0 + AccessTokenTtl + Leeway
    /\ tok_last.result = Ok(tok_last.token.payload)
    /\ Authenticated(tok_last.token, tok_last.at).ok

-----------------------------------------------------------------------------
(* Idle expiry of the sliding-window keys *)

\* the newest event stored under the key
NewestEvent(key) == CHOOSE m \in redis.z[key] : \A n \in redis.z[key] : n <= m

\* no check_rate_limit and no tracker call is in flight
NothingInFlight ==
    /\ \A c \in Callers : callers[c].pc = "idle"
    /\ \A c \in Trackers : trackers[c].pc = "idle"

\* the key has an expiry, set a window after its newest event was recorded:
\* not earlier than the event's timestamp plus the window
ExpirySet(key, window) ==
    \E e \in redis.ttl[key] : e >= NewestEvent(key) + window

\* C26: while no operation is in flight, every rate-limit key and every
\* login_attempts key that holds an event has an expiry, set one window after
\* its newest event was recorded, also when a store call of the operation
\* failed part-way.
C26_IdleExpirySet ==
    NothingInFlight =>
       /\ \A key \in RLKeys : redis.z[key] # {} => ExpirySet(key, RateKeyTtl)
       /\ \A id \in AccountIds :
             redis.z[LoginKey(id)] # {} => ExpirySet(LoginKey(id), LoginWindow)

-----------------------------------------------------------------------------
(* Login and the session it stores *)

\* the refresh token among the tokens of the response of a login
RefreshTokensOf(last) == {last.refresh} \cap last.resp.tokens

\* C27: when login answers success with a refresh token, the store holds the
\* session of that token at that moment; login does not answer success when
\* create_session failed.
C27_SuccessMeansSessionStored ==
    [][(login_last' # login_last /\ login_last'.resp.status = 200) =>
          \A token \in RefreshTokensOf(login_last') : SessionLive(redis', token)]_vars

-----------------------------------------------------------------------------
(* Login attempts during a lockout *)

\* this step is an await of a login of worker w that found the account id
\* blocked when it arrived
BlockedAttempt(w, id) ==
    /\ handlers[w].op = "login"
    /\ handlers[w].phase # "idle"
    /\ handlers[w].user # NoUser
    /\ handlers[w].user.id = id
    /\ handlers[w].met.blocked
    /\ handlers'[w] # handlers[w]

\* C28: while is_blocked is true for an account, a login attempt does not
\* change the account's failure history: no event is added and the expiry of
\* the key is not refreshed.
C28_LockoutHistoryFrozen ==
    [][\A id \in AccountIds, w \in Handlers :
          (BlockedNow(id) /\ BlockedAttempt(w, id)) =>
             /\ redis'.z[LoginKey(id)] = redis.z[LoginKey(id)]
             /\ redis'.ttl[LoginKey(id)] = redis.ttl[LoginKey(id)]]_vars

-----------------------------------------------------------------------------
(* The two timestamps of a token *)

\* C29: the lifetime written into an issued token, exp - iat, is exactly the
\* ttl of its profile, also when the clock ticks during issuance.
C29_LifetimeIsTtl ==
    tok_last.op = "issue" =>
       tok_last.token.payload.exp - tok_last.token.payload.iat = TtlOf(tok_last.kind)

-----------------------------------------------------------------------------
(* The lockout window login applies *)

\* the window record_attempt works with under the configuration
AppliedWindow == 60 * (config.login_attempt_window \div 60)

\* no request is being served, and the last login answered was a
\* wrong-password login of the account whose record_attempt returned Ok
FailureRecorded(id) ==
    /\ \A w \in Handlers : handlers[w].phase = "idle"
    /\ login_last.found
    /\ login_last.hasher = "mismatch"
    /\ streak[id] > 0
    /\ fails[id] # <<>>

\* C30: login records failures under a window of
\* 60 * floor(login_attempt_window / 60) seconds.  Configured below 60, a
\* recorded failure leaves no event and no key and is_blocked is false;
\* otherwise the key of a recorded failure expires that window after the
\* failure was recorded, the configured window itself when it is a multiple
\* of 60.
C30_WindowTruncatedToMinutes ==
    \A id \in AccountIds :
       FailureRecorded(id) =>
          IF config.login_attempt_window < 60
          THEN /\ redis.z[LoginKey(id)] = {}
               /\ redis.ttl[LoginKey(id)] = {}
               /\ ~BlockedNow(id)
          ELSE /\ \A e \in redis.ttl[LoginKey(id)] : e = login_last.at + AppliedWindow
               /\ redis.z[LoginKey(id)] # {} => redis.ttl[LoginKey(id)] # {}
               /\ now >= login_last.at + AppliedWindow => redis.z[LoginKey(id)] = {}
               /\ config.login_attempt_window % 60 = 0 =>
                    \A e \in redis.ttl[LoginKey(id)] :
                       e = login_last.at + config.login_attempt_window

\* under a window of 59 seconds, max_login_attempts wrong passwords in
\* distinct seconds were recorded and nothing is stored
C30_Witness ==
    \E id \in AccountIds :
       /\ config.login_attempt_window < 60
       /\ FailureRecorded(id)
       /\ streak[id] = MaxAttempts
       /\ Cardinality({fails[id][i] : i \in 1 .. Len(fails[id])}) = MaxAttempts
       /\ redis.z[LoginKey(id)] = {}
       /\ ~BlockedNow(id)

=============================================================================
